---------------------------- MODULE Spec2Model ----------------------------
(***************************************************************************)
(* A model of the frisbee connection engine (src/conn.go, the first Conn): *)
(* the public operations Write, Read, Flush, Close and Raw, the two        *)
(* background tasks flushLoop and readLoop, and the pause / close /        *)
(* closeWithError / killGoroutines transitions they share.                 *)
(*                                                                         *)
(* Spec        the connection as a set of threads stepping through the     *)
(*             code one shared-memory access (or one mutex-protected       *)
(*             region) at a time.                                          *)
(* SpecWire    one peer writing and flushing packets, the other peer's     *)
(*             readLoop framing the byte stream cell by cell.              *)
(* SpecServe   the per-connection dispatch loop of the server.             *)
(***************************************************************************)
EXTENDS Integers, Sequences, FiniteSets, TLC

(***************************************************************************)
(* Bounds of the model.                                                    *)
(***************************************************************************)
MaxOps == 3
LiveOps == 2
MaxWrites == 2
MaxIn == 1
MaxFaults == 1
RingSize == 1
WriterSize == 2

(***************************************************************************)
(* Connection states (conn.go 19-23) and error values.                     *)
(***************************************************************************)
CONNECTED == "CONNECTED"
CLOSED == "CLOSED"
PAUSED == "PAUSED"

NoError == "nil"
ConnectionClosed == "ConnectionClosed"
ConnectionPaused == "ConnectionPaused"
ConnectionNotInitialized == "ConnectionNotInitialized"
InvalidContentLength == "InvalidContentLength"
RingBufferClosed == "RingBufferClosed"
EOF == "io.EOF"
ErrClosedPipe == "io.ErrClosedPipe"
Timeout == "timeout"
NetError == "net.OpError"
ErrNetClosing == "use of closed network connection"

\* os.IsTimeout(err), conn.go 235
IsTimeout(e) == e = Timeout

\* errors.Is(err, io.EOF) || errors.Is(err, io.ErrClosedPipe), conn.go 238
IsEOF(e) == e \in {EOF, ErrClosedPipe}

(***************************************************************************)
(* Packets as Write receives them: a message and a content pointer, which  *)
(* may be nil.                                                             *)
(***************************************************************************)
NilContent == [nil |-> TRUE, bytes |-> <<>>]

Content(b) == [nil |-> FALSE, bytes |-> b]

Message(id, op, cl) == [From |-> 1, To |-> 2, Id |-> id, Operation |-> op, ContentLength |-> cl]

Packet(m, c) == [Message |-> m, Content |-> c]

\* len of the content a packet really carries (0 for a nil pointer)
ActualLength(p) == IF p.Content.nil THEN 0 ELSE Len(p.Content.bytes)

\* the packet's declared length is its real length
WellFormed(p) == p.Message.ContentLength = ActualLength(p)

\* conn.go 84-86: the guard of Write
InvalidContentLengthCheck(message, content) ==
    ~content.nil /\ message.ContentLength # Len(content.bytes)


(***************************************************************************)
(* The connection (Conn, conn.go 30-40) and its threads.                   *)
(***************************************************************************)
VARIABLES
    state,          \* c.state
    error,          \* c.error, the last-error slot
    mutex,          \* the thread holding c.Mutex, or Free
    writer,         \* frames buffered in c.writer
    writerErr,      \* the sticky error of c.writer (bufio keeps a failed write's error)
    flusher,        \* number of signals pending in c.flusher
    flusherClosed,  \* c.flusher has been closed
    ring,           \* c.incomingMessages
    ringClosed,     \* c.incomingMessages has been closed
    wire,           \* frames written to c.conn
    connClosed,     \* number of c.conn.Close() calls
    deadline,       \* c.conn has an expired read deadline
    wg,             \* c.wg
    th,             \* per thread: position in the code and locals
    panicked,       \* the process has panicked
    faults,         \* stream errors injected so far
    inCount,        \* frames received from the peer so far
    nextId,         \* Write calls begun so far
    opsBegun,       \* public operations begun so far
    opsLimit,       \* public operations the users may begin in all
    closeReturned,  \* history: some Close() has returned
    kills,          \* history: number of killGoroutines runs begun
    accepted,       \* history: Ids of the packets whose Write returned nil
    atClose,        \* history: accepted and the frames buffered, when close() moved the state
    closer,         \* history: the call of close() that moved the state to CLOSED
    pauser,         \* history: the thread whose pause() moved the state to PAUSED
    called,         \* history: the public operations begun so far
    stored,         \* history: the values the last-error slot has held
    finalFlush,     \* history: outcomes of the flushes in close()
    popped,         \* history: packets returned by Read
    rawReturned,    \* history: some Raw() has returned
    rawOps,         \* history: the operations on c.conn begun after a Raw() returned
    framing,        \* history: number of headers the read loop has found invalid
    dropped         \* history: Ids of the packets whose Write dropped its flush signal

connVars == <<state, error, mutex, writer, writerErr, flusher, flusherClosed, ring,
              ringClosed, wire, connClosed, deadline, wg, th, panicked, faults,
              inCount, nextId, opsBegun, opsLimit, closeReturned, kills, accepted, atClose, closer,
              pauser, called, stored, finalFlush, popped, rawReturned, rawOps,
              framing, dropped>>

(***************************************************************************)
(* The other peer: its readLoop, its ring buffer and what its Read has     *)
(* returned.  The peer reads the cells the connection wrote to the stream. *)
(***************************************************************************)
VARIABLES
    rl,             \* the locals of the peer's readLoop: pc, buf, n, index, ...
    rpos,           \* number of cells the peer has read from the stream
    peerRing,       \* the peer's incomingMessages
    delivered,      \* history: packets the peer's Read has returned
    paths           \* history: the branches of readLoop taken so far

peerVars == <<rl, rpos, peerRing, delivered, paths>>

(***************************************************************************)
(* The dispatch loop the server runs for one connection, and the packet    *)
(* pool.                                                                   *)
(***************************************************************************)
VARIABLES
    dl,             \* the locals of the dispatch loop: pc, inbound, outgoing, action
    served,         \* number of packets ReadPacket has handed to the loop
    puts,           \* history: for each packet, the number of times it was Put
    reused          \* history: the inbound packets a handler returned as outgoing

(***************************************************************************)
(* The server: its connections, their dispatch tasks, the acceptor and     *)
(* Shutdown.                                                               *)
(***************************************************************************)
VARIABLES
    sconn,          \* per connection: its state, or "none" before it is accepted
    task,           \* per connection: the position of its dispatch task and the action
    sd,             \* Shutdown: its position and what it returned
    stopping,       \* the server is marked stopping
    acceptor        \* the acceptor task: "accepting", or "stopped" after Accept failed

shutVars == <<sconn, task, sd, stopping, acceptor>>

(***************************************************************************)
(* The critical section of Write (conn.go 101-134) and of Sync.WriteMessage *)
(* (sync.go 127-156) write by write: the header and the content are two    *)
(* writes under the mutex.                                                 *)
(***************************************************************************)
VARIABLES
    fw,             \* per task: its position in Write, its packets so far, the packet's content
    fmutex,         \* the task holding the mutex, or Free
    fbuf,           \* the writes buffered in c.writer
    fwire,          \* the writes that have reached c.conn
    direct          \* the connection is a Sync: it writes to c.conn, without a writer

(***************************************************************************)
(* The synchronous connection, Sync (sync.go), and the connection whose    *)
(* flush loop waits on a condition variable (conn.go 451-619).             *)
(***************************************************************************)
VARIABLES
    sy,             \* the Sync: closed, error, the holder of its mutex, the c.conn.Close() calls
    sth,            \* per user of the Sync: its position, operation, error and result
    cv,             \* the second Conn: closed, mutex, writer, stream, flush loop, c.conn.Close() calls
    cth             \* per user of the second Conn: its position, operation, packet and result

extVars == <<sy, sth, cv, cth>>

frameVars == <<fw, fmutex, fbuf, fwire, direct, extVars>>

serveVars == <<dl, served, puts, reused, shutVars, frameVars>>

Free == "free"
FlushLoop == "flushLoop"
ReadLoop == "readLoop"
Users == {"user1", "user2"}

Threads == {FlushLoop, ReadLoop} \cup Users

NoPacket == Packet(Message(0, 0, 0), NilContent)

NotClosed == [accepted |-> {}, buffered |-> 0]

NoCloser == [thread |-> "none", op |-> "none", err |-> NoError, from |-> CLOSED]

\* capacity of c.flusher, make(chan struct{}, 1024) scaled down
FlusherCap == 1

\* the packets a user hands to Write under Spec: one that passes the guard of
\* conn.go 84 and one of a wrong content length (SpecWire varies the packets more)
UserPackets(id) ==
    { Packet(Message(id, 7, 1), Content(<<id>>)),
      Packet(Message(id, 7, 1), Content(<<id, id>>)) }

\* the frame the peer sends
PeerPacket(k) == Packet(Message(100 + k, 7, 0), NilContent)

ThreadInit(t) ==
    [pc |-> IF t = FlushLoop THEN "fl_recv" ELSE IF t = ReadLoop THEN "rl_read" ELSE "idle",
     op |-> IF t \in {FlushLoop, ReadLoop} THEN t ELSE "none",
     err |-> NoError, pkt |-> NoPacket, ret |-> NoError, after |-> FALSE,
     afterRaw |-> FALSE]

\* New, conn.go 53-73; f stream faults have been used up
ConnInit(f) ==
    /\ opsLimit \in {MaxOps, LiveOps}
    /\ state = CONNECTED
    /\ error = ConnectionClosed
    /\ mutex = Free
    /\ writer = <<>>
    /\ writerErr = NoError
    /\ flusher = 0
    /\ flusherClosed = FALSE
    /\ ring = <<>>
    /\ ringClosed = FALSE
    /\ wire = <<>>
    /\ connClosed = 0
    /\ deadline = FALSE
    /\ wg = 2
    /\ th = [t \in Threads |-> ThreadInit(t)]
    /\ panicked = FALSE
    /\ faults = f
    /\ inCount = 0
    /\ nextId = 0
    /\ opsBegun = 0
    /\ closeReturned = FALSE
    /\ kills = 0
    /\ accepted = {}
    /\ atClose = NotClosed
    /\ closer = NoCloser
    /\ pauser = "none"
    /\ called = {}
    /\ stored = {ConnectionClosed}
    /\ finalFlush = <<>>
    /\ popped = <<>>
    /\ rawReturned = FALSE
    /\ rawOps = {}
    /\ framing = 0
    /\ dropped = {}

(***************************************************************************)
(* The underlying stream, net.Conn.  A write fails once the stream has     *)
(* been closed, and may fail at any time for a reason of the network.      *)
(***************************************************************************)
\* the errors with which the network may fail a write: a closed pipe, a timeout
\* (a write deadline of the caller's stream, a keep-alive that has expired), or
\* any other error
NetworkFaults == {ErrClosedPipe, NetError, Timeout}

StreamWriteResults ==
    IF connClosed > 0 THEN {ErrNetClosing}
    ELSE {NoError} \cup (IF faults < MaxFaults THEN NetworkFaults ELSE {})


StreamFault(r) == IF r # NoError /\ connClosed = 0 THEN 1 ELSE 0

(***************************************************************************)
(* c.writer, a bufio.Writer on the stream.  Write buffers a frame and,     *)
(* when the buffer is full, first writes the buffer to the stream; Flush   *)
(* writes the buffer to the stream.  A failed stream write is kept and     *)
(* returned by every later Write and Flush.                                *)
(***************************************************************************)
WriteChoices ==
    IF writerErr # NoError THEN {writerErr}
    ELSE IF Len(writer) < WriterSize THEN {NoError}
    ELSE StreamWriteResults

BufWrite(frame, r) ==
    IF writerErr # NoError
    THEN UNCHANGED <<writer, writerErr, wire, faults>>
    ELSE IF Len(writer) < WriterSize
    THEN writer' = Append(writer, frame) /\ UNCHANGED <<writerErr, wire, faults>>
    ELSE IF r = NoError
    THEN writer' = <<frame>> /\ wire' = wire \o writer /\ UNCHANGED <<writerErr, faults>>
    ELSE writerErr' = r /\ faults' = faults + StreamFault(r) /\ UNCHANGED <<writer, wire>>

FlushChoices == IF writerErr # NoError THEN {writerErr} ELSE StreamWriteResults

BufFlush(r) ==
    IF writerErr # NoError
    THEN UNCHANGED <<writer, writerErr, wire, faults>>
    ELSE IF r = NoError
    THEN writer' = <<>> /\ wire' = wire \o writer /\ UNCHANGED <<writerErr, faults>>
    ELSE writerErr' = r /\ faults' = faults + StreamFault(r) /\ UNCHANGED <<writer, wire>>

(***************************************************************************)
(* Control flow shared by the threads.  A thread's record holds its        *)
(* position pc, the public operation (or task) op it is in, the error err  *)
(* it passed to closeWithError (NoError outside closeWithError), the       *)
(* packet pkt it writes or pushes (kept after Write has rejected it) and    *)
(* the value ret its last operation returned.                              *)
(***************************************************************************)
At(s, p) == [s EXCEPT !.pc = p]

Begin(t, o, p) ==
    [th[t] EXCEPT !.op = o, !.pkt = p, !.after = closeReturned, !.afterRaw = rawReturned,
                  !.ret = "pending"]

\* the operation of thread t returns v (a background task ends)
Ret(s, t, v) ==
    [s EXCEPT !.pc = IF t \in Users THEN "idle" ELSE "done", !.ret = v,
              !.err = NoError, !.pkt = NoPacket]

\* closeWithError(e) returns v: Flush returns e itself (conn.go 145-146), Write and
\* Read return v (conn.go 111, 166), the tasks drop it
CweRet(s, t, e, v) == Ret(s, t, IF s.op = "Flush" THEN e ELSE v)

\* closeWithError(e) is entered, conn.go 234-248
CweEnter(s, t, e) ==
    IF IsTimeout(e) THEN CweRet(s, t, e, e)
    ELSE IF IsEOF(e) THEN [s EXCEPT !.err = e, !.pc = "pause_cas"]
    ELSE [s EXCEPT !.err = e, !.pc = "close_cas"]

\* close() returns r to closeWithError (conn.go 248-256), to Close (conn.go 186-190)
\* or to Raw (conn.go 181-182)
CloseRet(s, t, r) ==
    IF s.err # NoError
    THEN IF r = ConnectionClosed THEN CweRet(s, t, s.err, ConnectionClosed) ELSE At(s, "cwe_store")
    ELSE IF s.op = "Close"
    THEN IF r = ConnectionClosed THEN Ret(s, t, NoError) ELSE At(s, "c_close")
    ELSE Ret(s, t, "conn")

\* the operations on c.conn in the step thread t takes to record rec: the stream
\* write of a Flush or of a Write on a full buffer (conn.go 102, 114, 142, 219,
\* 269), the read of the read loop (295), the deadlines of killGoroutines (197,
\* 199) and the Close of Close and closeWithError (190, 257)
StreamOps(t, rec) ==
    LET pc == th[t].pc IN
    IF \/ pc \in {"fl_flush", "close_flush"} /\ writer # <<>> /\ writerErr = NoError
       \/ pc = "idle" /\ rec.op = "Flush" /\ writer # <<>> /\ writerErr = NoError
       \/ pc = "w_lock" /\ Len(writer) >= WriterSize /\ writerErr = NoError
    THEN {"write"}
    ELSE IF pc = "rl_read" THEN {"read"}
    ELSE IF pc \in {"kill_deadline", "kill_wait"} THEN {"deadline"}
    ELSE IF pc \in {"c_close", "cwe_close"} THEN {"close"}
    ELSE {}

\* thread t takes a step to record rec
Set(t, rec) ==
    /\ th' = [th EXCEPT ![t] = rec]
    /\ closeReturned' = (closeReturned \/ (rec.pc = "idle" /\ rec.op = "Close"))
    /\ accepted' = IF rec.pc = "idle" /\ rec.op = "Write" /\ rec.ret = NoError
                   THEN accepted \cup {th[t].pkt.Message.Id}
                   ELSE accepted
    /\ opsBegun' = IF th[t].pc = "idle" THEN opsBegun + 1 ELSE opsBegun
    /\ called' = IF th[t].pc = "idle" THEN called \cup {rec.op} ELSE called
    /\ rawReturned' = (rawReturned \/ (rec.pc = "idle" /\ rec.op = "Raw"))
    /\ rawOps' = IF rawReturned THEN rawOps \cup StreamOps(t, rec) ELSE rawOps
    /\ UNCHANGED <<opsLimit, peerVars, serveVars>>

\* thread t is at p (and the process has not panicked)
Running(t, p) == ~panicked /\ th[t].pc = p

\* a user may begin an operation; of two users that have done nothing yet, user1
\* is the one to begin
CanBegin(t) ==
    /\ Running(t, "idle")
    /\ opsBegun < opsLimit
    /\ t = "user2" => opsBegun > 0


vSlots == <<state, error, stored>>
vSync == <<mutex, flusher, flusherClosed, wg>>
vIO == <<writer, writerErr, wire, faults>>
vStream == <<connClosed, deadline>>
vRing == <<ring, ringClosed, inCount, popped>>
vHist == <<kills, atClose, closer, pauser, finalFlush>>
vMisc == <<panicked, nextId, framing, dropped>>

(***************************************************************************)
(* Write, conn.go 83-137.                                                  *)
(***************************************************************************)
\* conn.go 84-99: the content-length guard, then the state check
Write(t, p) ==
    /\ CanBegin(t)
    /\ nextId < MaxWrites
    /\ nextId' = nextId + 1
    /\ LET s == Begin(t, "Write", p) IN
       Set(t, IF InvalidContentLengthCheck(p.Message, p.Content)
              THEN [Ret(s, t, InvalidContentLength) EXCEPT !.pkt = p]
              ELSE IF state # CONNECTED THEN At(s, "w_error") ELSE At(s, "w_lock"))
    /\ UNCHANGED <<vSlots, vSync, vIO, vStream, vRing, vHist, panicked, framing, dropped>>

\* conn.go 98, 106: return c.Error()
Write_Error(t) ==
    /\ Running(t, "w_error")
    /\ Set(t, Ret(th[t], t, error))
    /\ UNCHANGED <<vSlots, vSync, vIO, vStream, vRing, vHist, vMisc>>

\* conn.go 101-125: under the mutex, the header and the content go to the writer
Write_Append(t) ==
    /\ Running(t, "w_lock")
    /\ mutex = Free
    /\ \E r \in WriteChoices :
        /\ BufWrite(th[t].pkt, r)
        /\ IF r = NoError
           THEN mutex' = t /\ Set(t, At(th[t], "w_signal"))
           ELSE mutex' = Free /\ Set(t, [th[t] EXCEPT !.pc = "w_fail", !.err = r])
    /\ UNCHANGED <<vSlots, flusher, flusherClosed, wg, vStream, vRing, vHist, vMisc>>

\* conn.go 105, 117: after a failed write, the state decides what is returned
Write_Fail(t) ==
    /\ Running(t, "w_fail")
    /\ Set(t, IF state # CONNECTED THEN At(th[t], "w_error")
              ELSE CweEnter([th[t] EXCEPT !.err = NoError], t, th[t].err))
    /\ UNCHANGED <<vSlots, vSync, vIO, vStream, vRing, vHist, vMisc>>

\* conn.go 127-132: the lengths c.flusher may have after the signal step; no
\* outcome would mean the step blocks
SignalDropped(n) == {n}

SignalBlocking(n) == IF n < FlusherCap THEN {n + 1} ELSE {}

SignalOutcomes(n) == IF n = 0 THEN (IF n < FlusherCap THEN {n + 1} ELSE {n}) ELSE {n}

\* conn.go 127-136: signal the flush loop, unlock, return nil.  A send on a
\* closed channel panics.
Write_Signal(t) ==
    /\ Running(t, "w_signal")
    /\ IF flusherClosed /\ flusher = 0
       THEN /\ panicked' = TRUE
            /\ Set(t, At(th[t], "panic"))
            /\ UNCHANGED <<mutex, flusher, dropped>>
       ELSE /\ \E n \in SignalOutcomes(flusher) :
                  /\ flusher' = n
                  /\ dropped' = IF n = flusher THEN dropped \cup {th[t].pkt.Message.Id}
                                ELSE dropped
            /\ mutex' = Free
            /\ Set(t, Ret(th[t], t, NoError))
            /\ UNCHANGED panicked
    /\ UNCHANGED <<vSlots, flusherClosed, wg, vIO, vStream, vRing, vHist, nextId, framing>>

(***************************************************************************)
(* Flush, conn.go 139-151.                                                 *)
(***************************************************************************)
Flush(t) ==
    /\ CanBegin(t)
    /\ mutex = Free
    /\ LET s == Begin(t, "Flush", NoPacket) IN
       IF writer = <<>>
       THEN Set(t, Ret(s, t, NoError)) /\ UNCHANGED vIO
       ELSE \E r \in FlushChoices :
               /\ BufFlush(r)
               /\ Set(t, IF r = NoError THEN Ret(s, t, NoError) ELSE CweEnter(s, t, r))
    /\ UNCHANGED <<vSlots, vSync, vStream, vRing, vHist, vMisc>>

(***************************************************************************)
(* Read, conn.go 153-170.  Pop blocks on an empty open ring buffer and     *)
(* fails on one that is closed and drained.                                *)
(***************************************************************************)
ReadUnchecked(t) ==
    /\ CanBegin(t)
    /\ Set(t, At(Begin(t, "Read", NoPacket), "r_pop"))
    /\ UNCHANGED <<vSlots, vSync, vIO, vStream, vRing, vHist, vMisc>>

Read(t) ==
    /\ CanBegin(t)
    /\ LET s == Begin(t, "Read", NoPacket) IN
       Set(t, IF state # CONNECTED THEN At(s, "r_error") ELSE At(s, "r_pop"))
    /\ UNCHANGED <<vSlots, vSync, vIO, vStream, vRing, vHist, vMisc>>

\* conn.go 155, 161: return c.Error()
Read_Error(t) ==
    /\ Running(t, "r_error")
    /\ Set(t, Ret(th[t], t, error))
    /\ UNCHANGED <<vSlots, vSync, vIO, vStream, vRing, vHist, vMisc>>


\* conn.go 158-159: c.incomingMessages.Pop()
Read_Pop(t) ==
    /\ Running(t, "r_pop")
    /\ \/ /\ ring # <<>>
          /\ ring' = Tail(ring)
          /\ popped' = Append(popped, Head(ring))
          /\ Set(t, Ret(th[t], t, NoError))
       \/ /\ ring = <<>>
          /\ ringClosed
          /\ Set(t, [th[t] EXCEPT !.pc = "r_fail", !.err = RingBufferClosed])
          /\ UNCHANGED <<ring, popped>>
    /\ UNCHANGED <<vSlots, vSync, vIO, vStream, ringClosed, inCount, vHist, vMisc>>

\* conn.go 160-166: after a failed Pop, the state decides what is returned
Read_Fail(t) ==
    /\ Running(t, "r_fail")
    /\ Set(t, IF state # CONNECTED THEN At(th[t], "r_error")
              ELSE CweEnter([th[t] EXCEPT !.err = NoError], t, th[t].err))
    /\ UNCHANGED <<vSlots, vSync, vIO, vStream, vRing, vHist, vMisc>>

(***************************************************************************)
(* close, conn.go 213-232, entered from Close, Raw and closeWithError.     *)
(***************************************************************************)
\* the two compare-and-set of conn.go 214 and 224: where close() goes from state st
CloseBranchUnguarded(st) == IF st = PAUSED THEN "close2_store" ELSE "close_store"

CloseBranch(st) ==
    IF st = CONNECTED THEN "close_store"
    ELSE IF st = PAUSED THEN "close2_store"
    ELSE "closed"

CloseCAS(t, s) ==
    LET b == CloseBranch(state) IN
        /\ state' = IF b = "closed" THEN state ELSE CLOSED
        /\ Set(t, IF b = "closed" THEN CloseRet(s, t, ConnectionClosed) ELSE At(s, b))
        /\ closer' = IF b = "closed" THEN closer
                      ELSE [thread |-> t, op |-> s.op, err |-> s.err, from |-> state]
        /\ atClose' = IF b = "closed" THEN atClose
                       ELSE [accepted |-> accepted, buffered |-> Len(writer)]
        /\ UNCHANGED <<error, stored, vSync, vIO, deadline, vRing, kills, pauser, finalFlush,
                       vMisc>>

\* Close with the stream closed before close() instead of after it
CloseStreamFirst(t) ==
    /\ CanBegin(t)
    /\ CloseCAS(t, Begin(t, "Close", NoPacket))
    /\ connClosed' = connClosed + 1

\* Close, conn.go 185-186
Close(t) ==
    /\ CanBegin(t)
    /\ CloseCAS(t, Begin(t, "Close", NoPacket))
    /\ UNCHANGED connClosed

\* Raw, conn.go 180-181
Raw(t) ==
    /\ CanBegin(t)
    /\ CloseCAS(t, Begin(t, "Raw", NoPacket))
    /\ UNCHANGED connClosed

\* closeWithError, conn.go 248
Cwe_CloseCAS(t) ==
    /\ Running(t, "close_cas")
    /\ CloseCAS(t, th[t])
    /\ UNCHANGED connClosed

\* conn.go 215
Close_Store(t) ==
    /\ Running(t, "close_store")
    /\ error' = ConnectionClosed
    /\ stored' = stored \cup {ConnectionClosed}
    /\ Set(t, At(th[t], "kill_ring"))
    /\ UNCHANGED <<state, vSync, vIO, vStream, vRing, vHist, vMisc>>

\* conn.go 225
Close2_Store(t) ==
    /\ Running(t, "close2_store")
    /\ error' = ConnectionClosed
    /\ stored' = stored \cup {ConnectionClosed}
    /\ Set(t, At(th[t], "close2_put"))
    /\ UNCHANGED <<state, vSync, vIO, vStream, vRing, vHist, vMisc>>

\* conn.go 226-229
Close2_Put(t) ==
    /\ Running(t, "close2_put")
    /\ mutex = Free
    /\ Set(t, CloseRet(th[t], t, NoError))
    /\ UNCHANGED <<vSlots, vSync, vIO, vStream, vRing, vHist, vMisc>>

\* conn.go 217-223: the final flush, its error dropped
Close_Flush(t) ==
    /\ Running(t, "close_flush")
    /\ mutex = Free
    /\ IF writer = <<>>
       THEN finalFlush' = Append(finalFlush, "empty") /\ UNCHANGED vIO
       ELSE \E r \in FlushChoices : BufFlush(r) /\ finalFlush' = Append(finalFlush, r)
    /\ Set(t, CloseRet(th[t], t, NoError))
    /\ UNCHANGED <<vSlots, vSync, vStream, vRing, kills, atClose, closer, pauser, vMisc>>

\* Close, conn.go 190-191
Close_Conn(t) ==
    /\ Running(t, "c_close")
    /\ connClosed' = connClosed + 1
    /\ Set(t, Ret(th[t], t, NoError))
    /\ UNCHANGED <<vSlots, vSync, vIO, deadline, vRing, vHist, vMisc>>

(***************************************************************************)
(* pause, conn.go 202-211, entered from closeWithError.                    *)
(***************************************************************************)
\* conn.go 203: the compare-and-set of pause() succeeds from state st
PauseWinsUnguarded(st) == st # PAUSED

PauseWins(st) == st = CONNECTED

Pause_CAS(t) ==
    /\ Running(t, "pause_cas")
    /\ IF PauseWins(state)
       THEN state' = PAUSED /\ pauser' = t /\ Set(t, At(th[t], "pause_store"))
       ELSE state' = state /\ pauser' = pauser /\ Set(t, At(th[t], "pause_load"))
    /\ UNCHANGED <<error, stored, vSync, vIO, vStream, vRing, kills, atClose, closer,
                   finalFlush, vMisc>>

\* conn.go 204
Pause_Store(t) ==
    /\ Running(t, "pause_store")
    /\ error' = ConnectionPaused
    /\ stored' = stored \cup {ConnectionPaused}
    /\ Set(t, At(th[t], "kill_ring"))
    /\ UNCHANGED <<state, vSync, vIO, vStream, vRing, vHist, vMisc>>

\* conn.go 207-210 and 240-246
Pause_Load(t) ==
    /\ Running(t, "pause_load")
    /\ Set(t, CweRet(th[t], t, th[t].err,
                     IF state = PAUSED THEN ConnectionPaused ELSE ConnectionNotInitialized))
    /\ UNCHANGED <<vSlots, vSync, vIO, vStream, vRing, vHist, vMisc>>

(***************************************************************************)
(* killGoroutines, conn.go 194-200.                                        *)
(***************************************************************************)
Kill_Ring(t) ==
    /\ Running(t, "kill_ring")
    /\ ringClosed' = TRUE
    /\ kills' = kills + 1
    /\ Set(t, At(th[t], "kill_chan"))
    /\ UNCHANGED <<vSlots, vSync, vIO, vStream, ring, inCount, popped, atClose, closer,
                   pauser, finalFlush, vMisc>>

\* conn.go 196: closing a closed channel panics
Kill_Chan(t) ==
    /\ Running(t, "kill_chan")
    /\ flusherClosed' = TRUE
    /\ panicked' = flusherClosed
    /\ Set(t, At(th[t], IF flusherClosed THEN "panic" ELSE "kill_deadline"))
    /\ UNCHANGED <<vSlots, mutex, flusher, wg, vIO, vStream, vRing, vHist, nextId, framing,
                   dropped>>

\* conn.go 197
Kill_Deadline(t) ==
    /\ Running(t, "kill_deadline")
    /\ deadline' = TRUE
    /\ Set(t, At(th[t], "kill_wait"))
    /\ UNCHANGED <<vSlots, vSync, vIO, connClosed, vRing, vHist, vMisc>>

\* conn.go 198-199, then back in pause (206, 245) or in close (217)
Kill_Wait(t) ==
    /\ Running(t, "kill_wait")
    /\ wg = 0
    /\ deadline' = FALSE
    /\ Set(t, IF IsEOF(th[t].err) THEN CweRet(th[t], t, th[t].err, ConnectionPaused)
              ELSE At(th[t], "close_flush"))
    /\ UNCHANGED <<vSlots, vSync, vIO, connClosed, vRing, vHist, vMisc>>

(***************************************************************************)
(* closeWithError after a successful close(), conn.go 256-258.             *)
(***************************************************************************)
Cwe_Store(t) ==
    /\ Running(t, "cwe_store")
    /\ error' = th[t].err
    /\ stored' = stored \cup {th[t].err}
    /\ Set(t, At(th[t], "cwe_close"))
    /\ UNCHANGED <<state, vSync, vIO, vStream, vRing, vHist, vMisc>>

Cwe_Conn(t) ==
    /\ Running(t, "cwe_close")
    /\ connClosed' = connClosed + 1
    /\ Set(t, CweRet(th[t], t, th[t].err, th[t].err))
    /\ UNCHANGED <<vSlots, vSync, vIO, deadline, vRing, vHist, vMisc>>


\* c.wg after a failing task has called c.wg.Done() (conn.go 272, 299, 364), which
\* it does before it calls closeWithError; were Done to follow closeWithError, the
\* count would still hold the task while its teardown waits
DoneAfterClose(n) == n

DoneBeforeClose(n) == n - 1

(***************************************************************************)
(* flushLoop, conn.go 261-279.                                             *)
(***************************************************************************)
\* conn.go 263-266: receive a signal, or find the channel closed and drained
FlushLoop_Recv ==
    /\ Running(FlushLoop, "fl_recv")
    /\ \/ /\ flusher > 0
          /\ flusher' = flusher - 1
          /\ Set(FlushLoop, At(th[FlushLoop], "fl_flush"))
          /\ UNCHANGED wg
       \/ /\ flusher = 0
          /\ flusherClosed
          /\ wg' = wg - 1
          /\ Set(FlushLoop, Ret(th[FlushLoop], FlushLoop, NoError))
          /\ UNCHANGED flusher
    /\ UNCHANGED <<vSlots, mutex, flusherClosed, vIO, vStream, vRing, vHist, vMisc>>

\* conn.go 267-277
FlushLoop_Flush ==
    /\ Running(FlushLoop, "fl_flush")
    /\ mutex = Free
    /\ IF writer = <<>>
       THEN Set(FlushLoop, At(th[FlushLoop], "fl_recv")) /\ UNCHANGED <<vIO, wg>>
       ELSE \E r \in FlushChoices :
               /\ BufFlush(r)
               /\ IF r = NoError
                  THEN Set(FlushLoop, At(th[FlushLoop], "fl_recv")) /\ UNCHANGED wg
                  ELSE /\ wg' = DoneBeforeClose(wg)
                       /\ Set(FlushLoop, CweEnter(th[FlushLoop], FlushLoop, r))
    /\ UNCHANGED <<vSlots, mutex, flusher, flusherClosed, vStream, vRing, vHist, vMisc>>

(***************************************************************************)
(* readLoop, conn.go 281-433, with the stream read and the decoding of one *)
(* frame as one step (SpecWire has them cell by cell).                     *)
(***************************************************************************)
\* what c.conn.Read may return when no frame is there: an expired deadline is a
\* timeout, a closed stream an error, and the peer may close or the network fail
\* (with a timeout, as an expired keep-alive is, or with another error)
StreamReadErrors ==
    (IF deadline THEN {Timeout} ELSE {})
    \cup (IF connClosed > 0 THEN {ErrNetClosing} ELSE {})
    \cup (IF ~deadline /\ connClosed = 0
          THEN {EOF} \cup (IF faults < MaxFaults THEN {NetError, Timeout} ELSE {})
          ELSE {})

\* conn.go 293-305: a frame arrives
ReadLoop_Read ==
    /\ Running(ReadLoop, "rl_read")
    /\ ~deadline
    /\ connClosed = 0
    /\ inCount < MaxIn
    /\ inCount' = inCount + 1
    /\ Set(ReadLoop, [th[ReadLoop] EXCEPT !.pc = "rl_push", !.pkt = PeerPacket(inCount + 1)])
    /\ UNCHANGED <<vSlots, vSync, vIO, vStream, ring, ringClosed, popped, vHist, vMisc>>

\* conn.go 309-312: where the read loop goes on finding the version of a header
\* not to be Version0: InvalidBufferContents is logged and the break leaves the
\* loop over the buffer, so the loop over the stream reads again
InvalidContents(s) == At(s, "rl_read")

\* conn.go 293-312: a header arrives whose version is not Version0
ReadLoop_BadVersion ==
    /\ Running(ReadLoop, "rl_read")
    /\ ~deadline
    /\ connClosed = 0
    /\ faults < MaxFaults
    /\ faults' = faults + 1
    /\ framing' = framing + 1
    /\ Set(ReadLoop, InvalidContents(th[ReadLoop]))
    /\ UNCHANGED <<vSlots, vSync, writer, writerErr, wire, vStream, vRing, vHist, panicked,
                   nextId, dropped>>

\* conn.go 297-301: the read fails
ReadLoop_ReadError ==
    /\ Running(ReadLoop, "rl_read")
    /\ \E e \in StreamReadErrors :
        /\ faults' = faults + (IF e = NetError \/ (e = Timeout /\ ~deadline)
                               THEN StreamFault(e) ELSE 0)
        /\ wg' = DoneBeforeClose(wg)
        /\ Set(ReadLoop, CweEnter(th[ReadLoop], ReadLoop, e))
    /\ UNCHANGED <<vSlots, mutex, flusher, flusherClosed, writer, writerErr, wire, vStream,
                   vRing, vHist, vMisc>>

\* conn.go 358-379: Push blocks on a full ring buffer and fails on a closed one
ReadLoop_Push ==
    /\ Running(ReadLoop, "rl_push")
    /\ IF ringClosed
       THEN /\ wg' = DoneBeforeClose(wg)
            /\ Set(ReadLoop, CweEnter(th[ReadLoop], ReadLoop, RingBufferClosed))
            /\ UNCHANGED ring
       ELSE /\ Len(ring) < RingSize
            /\ ring' = Append(ring, th[ReadLoop].pkt)
            /\ Set(ReadLoop, At(th[ReadLoop], "rl_read"))
            /\ UNCHANGED wg
    /\ UNCHANGED <<vSlots, mutex, flusher, flusherClosed, vIO, vStream, ringClosed, inCount,
                   popped, vHist, vMisc>>

(***************************************************************************)
(* The wire format, conn.go 88-95 and 309-320, with one cell per header    *)
(* field: a frame is MessageV0Size header cells followed by the content.   *)
(***************************************************************************)
Version0 == 1
VersionV0Offset == 0
FromV0Offset == 1
ToV0Offset == 2
IdV0Offset == 3
OperationV0Offset == 4
ContentLengthV0Offset == 5
MessageV0Size == 6

\* conn.go 88-95: encodedMessage
EncodeMessage(m) ==
    [i \in 1..MessageV0Size |->
        IF i = VersionV0Offset + 1 THEN Version0
        ELSE IF i = FromV0Offset + 1 THEN m.From
        ELSE IF i = ToV0Offset + 1 THEN m.To
        ELSE IF i = IdV0Offset + 1 THEN m.Id
        ELSE IF i = OperationV0Offset + 1 THEN m.Operation
        ELSE IF i = ContentLengthV0Offset + 1 THEN m.ContentLength
        ELSE 0]

\* conn.go 102-125: what Write hands to c.writer for packet p
Encode(p) == EncodeMessage(p.Message) \o (IF p.Content.nil THEN <<>> ELSE p.Content.bytes)

RECURSIVE Cells(_)
\* the cells of a sequence of frames
Cells(frames) == IF frames = <<>> THEN <<>> ELSE Encode(Head(frames)) \o Cells(Tail(frames))

\* the cells written to the stream so far
WireBytes == Cells(wire)

\* conn.go 314-320: decodedMessage, from the header at buf[index:]
DecodeMessage(b, ix) ==
    [From |-> b[ix + FromV0Offset + 1], To |-> b[ix + ToV0Offset + 1],
     Id |-> b[ix + IdV0Offset + 1], Operation |-> b[ix + OperationV0Offset + 1],
     ContentLength |-> b[ix + ContentLengthV0Offset + 1]]

(***************************************************************************)
(* The peer's readLoop, conn.go 281-433, cell by cell.  No stream error    *)
(* and no close is modelled on this side.                                  *)
(***************************************************************************)
\* cap(buf) at conn.go 282, 1 << 19 scaled down
BufCap == 13

NoMessage == Message(0, 0, 0)

Zeros(k) == [i \in 1..k |-> 0]

Min(a, b) == IF a < b THEN a ELSE b

PeerInit ==
    /\ rl = [pc |-> "header", buf |-> Zeros(BufCap), n |-> 0, index |-> 0,
             msg |-> NoMessage, readContent |-> <<>>, cp |-> 0, min |-> 0]
    /\ rpos = 0
    /\ peerRing = <<>>
    /\ delivered = <<>>
    /\ paths = {}

\* the sizes nn that c.conn.Read(buf[o:]) may return: at least one cell, at most
\* what has arrived and what buf[o:] holds
ReadSizes(b, o) == 1..Min(Len(WireBytes) - rpos, Len(b) - o)

\* buf after c.conn.Read(buf[o:]) has returned nn
StreamRead(b, o, nn) ==
    [i \in 1..Len(b) |-> IF i > o /\ i <= o + nn THEN WireBytes[rpos + i - o] ELSE b[i]]

\* conn.go 325-328: append until cap(buf) holds the content
RECURSIVE Grow(_, _)
Grow(b, cl) == IF Len(b) >= cl THEN b ELSE Grow(b \o Zeros(Len(b)), cl)

\* conn.go 403: copy(buf, buf[index:n])
CopyBackNone(b, ix, n) == b

CopyBack(b, ix, n) == [i \in 1..Len(b) |-> IF i <= n - ix THEN b[ix + i] ELSE b[i]]

\* conn.go 293-307 (and 389-401): one c.conn.Read of the loop that fills the header
HeaderRead(nn) ==
    [rl EXCEPT !.buf = StreamRead(rl.buf, rl.n, nn),
               !.n = rl.n + nn,
               !.index = IF rl.n + nn < MessageV0Size THEN rl.index ELSE 0,
               !.pc = IF rl.n + nn < MessageV0Size THEN rl.pc ELSE "decode"]

\* conn.go 285-307
RL_Header ==
    /\ rl.pc = "header"
    /\ \E nn \in ReadSizes(rl.buf, rl.n) :
        /\ rl' = HeaderRead(nn)
        /\ rpos' = rpos + nn
    /\ UNCHANGED <<peerRing, delivered, paths, connVars, serveVars>>

\* conn.go 321-322 and 368: a message without content, whose header ends at ix
NoContentSameIndex(m, ix) == [rl EXCEPT !.msg = m, !.pc = "push"]

NoContent(m, ix) == [rl EXCEPT !.msg = m, !.index = ix, !.pc = "push"]

\* conn.go 321-357: the content of the decoded message m, whose header ends at ix
ContentStep(m, ix) ==
    IF m.ContentLength = 0
    THEN NoContent(m, ix)
    ELSE IF rl.n - ix < m.ContentLength
    THEN LET b == Grow(rl.buf, m.ContentLength)
             cp == rl.n - ix
         IN  [rl EXCEPT !.msg = m, !.buf = b, !.cp = cp, !.min = m.ContentLength - cp,
                        !.readContent = [i \in 1..m.ContentLength |->
                                            IF i <= cp THEN b[ix + i] ELSE 0],
                        !.index = ix, !.n = 0, !.pc = "content"]
    ELSE [rl EXCEPT !.msg = m, !.index = ix + m.ContentLength,
                    !.readContent = SubSeq(rl.buf, ix + 1, ix + m.ContentLength),
                    !.pc = "push"]

\* conn.go 308-357: the version check, the header, and the content when the buffer
\* holds it
RL_Decode ==
    /\ rl.pc = "decode"
    /\ IF rl.index >= rl.n \/ rl.buf[rl.index + VersionV0Offset + 1] # Version0
       THEN rl' = [rl EXCEPT !.pc = "header", !.n = 0] /\ UNCHANGED paths
       ELSE LET m == DecodeMessage(rl.buf, rl.index)
                ix == rl.index + MessageV0Size
            IN  /\ rl' = ContentStep(m, ix)
                /\ paths' = paths
                      \cup (IF m.ContentLength > 0 /\ rl.n - ix < m.ContentLength
                            THEN {"content split"} ELSE {})
                      \cup (IF m.ContentLength > Len(rl.buf) THEN {"buffer grown"} ELSE {})
    /\ UNCHANGED <<rpos, peerRing, delivered, connVars, serveVars>>

\* conn.go 338-353: one c.conn.Read of the loop that fills the rest of the content
RL_Content ==
    /\ rl.pc = "content"
    /\ \E nn \in ReadSizes(rl.buf, rl.n) :
        LET b == StreamRead(rl.buf, rl.n, nn) IN
        /\ rpos' = rpos + nn
        /\ rl' = IF rl.n + nn < rl.min
                 THEN [rl EXCEPT !.buf = b, !.n = rl.n + nn]
                 ELSE [rl EXCEPT !.buf = b, !.n = rl.n + nn, !.index = rl.min,
                                 !.readContent = [i \in 1..Len(rl.readContent) |->
                                                     IF i <= rl.cp THEN rl.readContent[i]
                                                     ELSE b[i - rl.cp]],
                                 !.pc = "push"]
    /\ UNCHANGED <<peerRing, delivered, paths, connVars, serveVars>>

\* conn.go 380-430: after a push, the buffer is used up, or it ends in a part of
\* the next header, or it holds the next header whole
AfterPush(r) ==
    IF r.n = r.index
    THEN [r EXCEPT !.index = 0, !.n = 0, !.pc = "next"]
    ELSE IF r.n - r.index < MessageV0Size
    THEN [r EXCEPT !.buf = CopyBack(r.buf, r.index, r.n), !.index = r.n - r.index,
                   !.min = MessageV0Size - (r.n - r.index), !.n = 0, !.pc = "partial"]
    ELSE [r EXCEPT !.pc = "decode"]

\* the packet of conn.go 358-361 and 369-372
Decoded(r) ==
    Packet(r.msg, IF r.msg.ContentLength > 0 THEN Content(r.readContent) ELSE NilContent)

\* conn.go 358-430: Push blocks while the ring buffer is full
RL_Push ==
    /\ rl.pc = "push"
    /\ Len(peerRing) < RingSize
    /\ peerRing' = Append(peerRing, Decoded(rl))
    /\ rl' = AfterPush([rl EXCEPT !.msg = NoMessage, !.readContent = <<>>, !.cp = 0,
                                  !.min = 0])
    /\ paths' = paths
          \cup (IF rl.n # rl.index /\ rl.n - rl.index < MessageV0Size
                THEN {"header split"} ELSE {})
          \cup (IF rl.n - rl.index >= MessageV0Size THEN {"frames in one read"} ELSE {})
    /\ UNCHANGED <<rpos, delivered, connVars, serveVars>>

\* conn.go 388-401
RL_Next ==
    /\ rl.pc = "next"
    /\ \E nn \in ReadSizes(rl.buf, rl.n) :
        /\ rl' = HeaderRead(nn)
        /\ rpos' = rpos + nn
    /\ UNCHANGED <<peerRing, delivered, paths, connVars, serveVars>>

\* conn.go 414-429: one c.conn.Read of the loop that fills the rest of the header
RL_Partial ==
    /\ rl.pc = "partial"
    /\ \E nn \in ReadSizes(rl.buf, rl.index + rl.n) :
        /\ rpos' = rpos + nn
        /\ rl' = IF rl.n + nn < rl.min
                 THEN [rl EXCEPT !.buf = StreamRead(rl.buf, rl.index + rl.n, nn),
                                 !.n = rl.n + nn]
                 ELSE [rl EXCEPT !.buf = StreamRead(rl.buf, rl.index + rl.n, nn),
                                 !.n = rl.n + nn + rl.index, !.index = 0, !.min = 0,
                                 !.pc = "decode"]
    /\ UNCHANGED <<peerRing, delivered, paths, connVars, serveVars>>

\* the peer's Read on its CONNECTED connection, conn.go 153-169: Pop blocks while
\* the ring buffer is empty
PeerRead ==
    /\ peerRing # <<>>
    /\ peerRing' = Tail(peerRing)
    /\ delivered' = Append(delivered, Head(peerRing))
    /\ UNCHANGED <<rl, rpos, paths, connVars, serveVars>>

(***************************************************************************)
(* The server's dispatch loop for one connection, steps 1 to 6.  The       *)
(* connection is seen through what ReadPacket and WritePacket return.      *)
(***************************************************************************)
MaxServed == 3

NONE == "NONE"
CLOSE == "CLOSE"
SHUTDOWN == "SHUTDOWN"

NoPointer == 0

\* the packets ReadPacket hands out, and the packets a handler gets from the pool
Inbound == 1..MaxServed

Fresh(k) == 100 + k

Pooled == Inbound \cup { Fresh(k) : k \in Inbound }

\* the Operation of the k-th inbound packet is in the handler table for every
\* packet but the second
HandlerTable(k) == k # 2

ServeInit ==
    /\ dl = [pc |-> "read", inbound |-> NoPointer, outgoing |-> NoPointer, action |-> NONE]
    /\ served = 0
    /\ puts = [k \in Pooled |-> 0]
    /\ reused = {}

\* packet.Put(k)
Put(k) == puts' = [puts EXCEPT ![k] = puts[k] + 1]

\* step 1: ReadPacket returns a packet, or ConnectionClosed or ConnectionPaused
\* and the loop exits
D_Read ==
    /\ dl.pc = "read"
    /\ \/ /\ served < MaxServed
          /\ served' = served + 1
          /\ dl' = [dl EXCEPT !.pc = "lookup", !.inbound = served + 1]
       \/ /\ dl' = [dl EXCEPT !.pc = "exit"]
          /\ UNCHANGED served
    /\ UNCHANGED <<puts, reused, shutVars, connVars, peerVars, frameVars>>

\* step 2: no handler for the Operation: the inbound packet goes back to the pool
D_Lookup ==
    /\ dl.pc = "lookup"
    /\ IF HandlerTable(dl.inbound)
       THEN dl' = [dl EXCEPT !.pc = "handler"] /\ UNCHANGED puts
       ELSE dl' = [dl EXCEPT !.pc = "read", !.inbound = NoPointer] /\ Put(dl.inbound)
    /\ UNCHANGED <<served, reused, shutVars, connVars, peerVars, frameVars>>

\* step 3: the handler returns no packet, a packet of its own, or the inbound
\* packet, and an action
D_Handler ==
    /\ dl.pc = "handler"
    /\ \E out \in {NoPointer, Fresh(dl.inbound), dl.inbound}, a \in {NONE, CLOSE, SHUTDOWN} :
        /\ dl' = [dl EXCEPT !.pc = "return", !.outgoing = out, !.action = a]
        /\ reused' = IF out = dl.inbound THEN reused \cup {out} ELSE reused
    /\ UNCHANGED <<served, puts, shutVars, connVars, peerVars, frameVars>>

\* step 4: the packets to Put: inbound, unless it is the pointer the handler returned
ReturnInboundAlways(inbound, outgoing) == {inbound}

ReturnInbound(inbound, outgoing) == IF outgoing = inbound THEN {} ELSE {inbound}

D_Return ==
    /\ dl.pc = "return"
    /\ puts' = [k \in Pooled |->
                   IF k \in ReturnInbound(dl.inbound, dl.outgoing) THEN puts[k] + 1 ELSE puts[k]]
    /\ dl' = [dl EXCEPT !.pc = IF dl.outgoing = NoPointer THEN "action" ELSE "write"]
    /\ UNCHANGED <<served, reused, shutVars, connVars, peerVars, frameVars>>

\* step 5: PreWrite, WritePacket (whatever it returns), then the outgoing packet
\* goes back to the pool
D_Write ==
    /\ dl.pc = "write"
    /\ Put(dl.outgoing)
    /\ dl' = [dl EXCEPT !.pc = "action"]
    /\ UNCHANGED <<served, reused, shutVars, connVars, peerVars, frameVars>>

\* step 6: NONE continues; CLOSE and SHUTDOWN close the connection and exit
D_Action ==
    /\ dl.pc = "action"
    /\ dl' = [dl EXCEPT !.pc = IF dl.action = NONE THEN "read" ELSE "exit",
                        !.inbound = NoPointer, !.outgoing = NoPointer, !.action = NONE]
    /\ UNCHANGED <<served, puts, reused, shutVars, connVars, peerVars, frameVars>>

(***************************************************************************)
(* The server, section 4.4: ServeConn (or the acceptor of Start) registers *)
(* a connection and spawns its dispatch task; a dispatch task reads,       *)
(* invokes the handler and dispatches the action; Shutdown marks the       *)
(* server stopping, unblocks the acceptor, closes every connection of the  *)
(* registry and waits for the dispatch tasks.  A connection is seen        *)
(* through its state and what ReadPacket returns.                          *)
(***************************************************************************)
MaxConns == 3

Conns == 1..MaxConns

NoTask == [pc |-> "none", action |-> NONE]

ServerInit ==
    /\ sconn = [k \in Conns |-> "none"]
    /\ task = [k \in Conns |-> NoTask]
    /\ sd = [pc |-> "idle", by |-> 0, ret |-> "pending"]
    /\ stopping = FALSE
    /\ acceptor = "accepting"

\* the connections of the registry that are not CLOSED
Live == { k \in Conns : sconn[k] \in {CONNECTED, PAUSED} }

\* Start / ServeConn: the next stream is accepted while the server is not
\* stopping; its connection is registered and its dispatch task spawned
S_ServeConn(k) ==
    /\ ~stopping
    /\ acceptor = "accepting"
    /\ sconn[k] = "none"
    /\ \A j \in Conns : j < k => sconn[j] # "none"
    /\ sconn' = [sconn EXCEPT ![k] = CONNECTED]
    /\ task' = [task EXCEPT ![k] = [pc |-> "read", action |-> NONE]]
    /\ UNCHANGED <<sd, stopping, acceptor, dl, served, puts, reused, connVars, peerVars, frameVars>>

\* the acceptor, unblocked by Shutdown: Accept returns a terminal error
S_AcceptFails ==
    /\ stopping
    /\ acceptor = "accepting"
    /\ acceptor' = "stopped"
    /\ UNCHANGED <<sconn, task, sd, stopping, dl, served, puts, reused, connVars,
                   peerVars, frameVars>>

\* the peer closes its end of the stream: the connection's read loop pauses it
S_PeerCloses(k) ==
    /\ sconn[k] = CONNECTED
    /\ sconn' = [sconn EXCEPT ![k] = PAUSED]
    /\ UNCHANGED <<task, sd, stopping, acceptor, dl, served, puts, reused, connVars,
                   peerVars, frameVars>>

\* step 1: ReadPacket returns a packet while the connection is CONNECTED (and
\* blocks while there is none); on ConnectionClosed or ConnectionPaused the loop
\* exits
S_Read(k) ==
    /\ task[k].pc = "read"
    /\ task' = [task EXCEPT ![k].pc = IF sconn[k] = CONNECTED THEN "handler" ELSE "done"]
    /\ UNCHANGED <<sconn, sd, stopping, acceptor, dl, served, puts, reused, connVars,
                   peerVars, frameVars>>

\* steps 2 to 5: the handler returns its action (and the outgoing packet, which
\* is written)
S_Handler(k) ==
    /\ task[k].pc = "handler"
    /\ \E a \in {NONE, CLOSE, SHUTDOWN} :
        task' = [task EXCEPT ![k] = [pc |-> "action", action |-> a]]
    /\ UNCHANGED <<sconn, sd, stopping, acceptor, dl, served, puts, reused, connVars,
                   peerVars, frameVars>>

\* step 6, SHUTDOWN: where the dispatch task goes once it has initiated Shutdown:
\* it exits; were it to run Shutdown itself it would stay until Shutdown returns
InitiatedInline(r) == [r EXCEPT !.pc = "shutdown"]

Initiated(r) == [r EXCEPT !.pc = "done"]

\* step 6: NONE continues; CLOSE closes this connection and exits; SHUTDOWN
\* closes this connection, initiates Shutdown and exits
S_Action(k) ==
    /\ task[k].pc = "action"
    /\ sconn' = [sconn EXCEPT ![k] = IF task[k].action = NONE THEN sconn[k] ELSE CLOSED]
    /\ task' = [task EXCEPT ![k] = IF task[k].action = NONE THEN [task[k] EXCEPT !.pc = "read"]
                                   ELSE IF task[k].action = CLOSE
                                   THEN [task[k] EXCEPT !.pc = "done"]
                                   ELSE Initiated(task[k])]
    /\ sd' = IF task[k].action = SHUTDOWN /\ sd.pc = "idle"
             THEN [sd EXCEPT !.pc = "mark", !.by = k]
             ELSE sd
    /\ UNCHANGED <<stopping, acceptor, dl, served, puts, reused, connVars, peerVars, frameVars>>

\* Shutdown() called by the user of the server
S_Shutdown ==
    /\ sd.pc = "idle"
    /\ sd' = [sd EXCEPT !.pc = "mark"]
    /\ UNCHANGED <<sconn, task, stopping, acceptor, dl, served, puts, reused, connVars,
                   peerVars, frameVars>>

\* Shutdown: marks the server stopping and unblocks the acceptor
Sd_Mark ==
    /\ sd.pc = "mark"
    /\ stopping' = TRUE
    /\ sd' = [sd EXCEPT !.pc = "close"]
    /\ UNCHANGED <<sconn, task, acceptor, dl, served, puts, reused, connVars, peerVars, frameVars>>

\* Shutdown: closes every connection of the registry
Sd_CloseAll ==
    /\ sd.pc = "close"
    /\ sconn' = [k \in Conns |-> IF k \in Live THEN CLOSED ELSE sconn[k]]
    /\ sd' = [sd EXCEPT !.pc = "wait"]
    /\ UNCHANGED <<task, stopping, acceptor, dl, served, puts, reused, connVars,
                   peerVars, frameVars>>

\* Shutdown: waits for all dispatch tasks to finish, and returns
Sd_Wait ==
    /\ sd.pc = "wait"
    /\ \A k \in Conns : task[k].pc \in {"none", "done"}
    /\ sd' = [sd EXCEPT !.pc = "returned", !.ret = NoError]
    /\ UNCHANGED <<sconn, task, stopping, acceptor, dl, served, puts, reused, connVars,
                   peerVars, frameVars>>

(***************************************************************************)
(* The critical section of Write and of Sync.WriteMessage.  Each task      *)
(* writes MaxFrames packets, with or without content.                      *)
(***************************************************************************)
MaxFrames == 2

\* cap of c.writer in writes (1 << 19 bytes, scaled down)
FrameBuf == 2

Chunk(t, part) == [task |-> t, seq |-> fw[t].seq, part |-> part, content |-> fw[t].content]

FramesInit ==
    /\ fw = [t \in Users |-> [pc |-> "idle", seq |-> 0, content |-> FALSE]]
    /\ fmutex = Free
    /\ fbuf = <<>>
    /\ fwire = <<>>
    /\ direct \in BOOLEAN

\* c.writer.Write (conn.go 102, 114): a write that does not fit in the buffer
\* first sends the buffer to the stream; c.conn.Write (sync.go 133, 144) goes to
\* the stream
Emit(ch) ==
    IF direct
    THEN fwire' = Append(fwire, ch) /\ UNCHANGED fbuf
    ELSE IF Len(fbuf) < FrameBuf
    THEN fbuf' = Append(fbuf, ch) /\ UNCHANGED fwire
    ELSE fwire' = fwire \o fbuf /\ fbuf' = <<ch>>

\* conn.go 83-99, sync.go 116-125: the next packet of task t passes the guards
F_Write(t) ==
    /\ fw[t].pc = "idle"
    /\ fw[t].seq < MaxFrames
    /\ \E c \in BOOLEAN : fw' = [fw EXCEPT ![t] = [pc |-> "lock", seq |-> fw[t].seq + 1,
                                                    content |-> c]]
    /\ UNCHANGED <<fmutex, fbuf, fwire, direct, extVars, connVars, peerVars, dl, served, puts, reused,
                   shutVars>>

\* c.Lock() returns when the mutex is in state m; without the mutex it would
\* return at once
LockFree(m) == TRUE

Lock(m) == m = Free

\* conn.go 101, sync.go 127
F_Lock(t) ==
    /\ fw[t].pc = "lock"
    /\ Lock(fmutex)
    /\ fmutex' = t
    /\ fw' = [fw EXCEPT ![t].pc = "header"]
    /\ UNCHANGED <<fbuf, fwire, direct, extVars, connVars, peerVars, dl, served, puts, reused, shutVars>>

\* conn.go 102, sync.go 133: the header
F_Header(t) ==
    /\ fw[t].pc = "header"
    /\ Emit(Chunk(t, "header"))
    /\ fw' = [fw EXCEPT ![t].pc = IF fw[t].content THEN "content" ELSE "unlock"]
    /\ UNCHANGED <<fmutex, direct, extVars, connVars, peerVars, dl, served, puts, reused, shutVars>>

\* conn.go 113-114, sync.go 143-144: the content
F_Content(t) ==
    /\ fw[t].pc = "content"
    /\ Emit(Chunk(t, "content"))
    /\ fw' = [fw EXCEPT ![t].pc = "unlock"]
    /\ UNCHANGED <<fmutex, direct, extVars, connVars, peerVars, dl, served, puts, reused, shutVars>>

\* conn.go 127-136, sync.go 156-157
F_Unlock(t) ==
    /\ fw[t].pc = "unlock"
    /\ fmutex' = Free
    /\ fw' = [fw EXCEPT ![t].pc = "idle"]
    /\ UNCHANGED <<fbuf, fwire, direct, extVars, connVars, peerVars, dl, served, puts, reused, shutVars>>

\* conn.go 267-277 (and 140-149): the flush loop (or Flush) sends the buffer to the
\* stream, under the mutex
F_Flush ==
    /\ ~direct
    /\ Lock(fmutex)
    /\ fbuf # <<>>
    /\ fwire' = fwire \o fbuf
    /\ fbuf' = <<>>
    /\ UNCHANGED <<fw, fmutex, direct, extVars, connVars, peerVars, dl, served, puts, reused, shutVars>>

(***************************************************************************)
(* The synchronous connection, sync.go.  It has no background task: two    *)
(* users call WriteMessage, ReadMessage, Raw and Close, MaxSyncOps calls   *)
(* in all, and the stream may fail a read or a write.                      *)
(***************************************************************************)
MaxSyncOps == 3

\* NewSync, sync.go 65-77
SyncInit ==
    /\ sy = [closed |-> FALSE, error |-> NoError, mutex |-> Free, connClosed |-> 0,
             winner |-> "none", faults |-> 0, ops |-> 0]
    /\ sth = [t \in Users |-> [pc |-> "idle", op |-> "none", err |-> NoError, ret |-> NoError]]

syncRest == <<cv, cth, connVars, peerVars, dl, served, puts, reused, shutVars, fw, fmutex,
              fbuf, fwire, direct>>

\* c.conn.Write and io.ReadAtLeast(c.conn, ...): the stream fails once it has been
\* closed, and may fail at any time for a reason of the network
SyncIOResults ==
    IF sy.connClosed > 0 THEN {ErrNetClosing}
    ELSE {NoError} \cup (IF sy.faults < MaxFaults THEN {EOF, NetError, Timeout} ELSE {})

\* user t begins operation o at position p
SyncCall(t, o, p) == [pc |-> p, op |-> o, err |-> NoError, ret |-> "pending"]

\* the operation of user t returns v
SyncRet(t, v) == [sth[t] EXCEPT !.pc = "idle", !.ret = v, !.err = NoError]

\* sync.go 228-233: close() wins when its compare-and-set finds closed false
SyncCloseAlways(c) == TRUE

SyncCloseWins(c) == ~c

\* sync.go 116-126: WriteMessage passes the length guard and encodes the header
Y_WriteMessage(t) ==
    /\ sth[t].pc = "idle"
    /\ sy.ops < MaxSyncOps
    /\ sy' = [sy EXCEPT !.ops = @ + 1]
    /\ sth' = [sth EXCEPT ![t] = SyncCall(t, "WriteMessage", "w_lock")]
    /\ UNCHANGED syncRest

\* sync.go 127-131
Y_Lock(t) ==
    /\ sth[t].pc = "w_lock"
    /\ Lock(sy.mutex)
    /\ IF sy.closed
       THEN /\ sth' = [sth EXCEPT ![t] = SyncRet(t, ConnectionClosed)]
            /\ UNCHANGED sy
       ELSE /\ sy' = [sy EXCEPT !.mutex = t]
            /\ sth' = [sth EXCEPT ![t].pc = "w_io"]
    /\ UNCHANGED syncRest

\* sync.go 133-135, 144-146, 156-157: the header and the content are written to
\* the stream, and the mutex is released whether or not a write failed
Y_WriteIO(t) ==
    /\ sth[t].pc = "w_io"
    /\ \E r \in SyncIOResults :
          /\ sy' = [sy EXCEPT !.mutex = Free,
                              !.faults = @ + (IF r # NoError /\ sy.connClosed = 0 THEN 1 ELSE 0)]
          /\ sth' = [sth EXCEPT ![t] = IF r = NoError THEN SyncRet(t, NoError)
                                       ELSE [sth[t] EXCEPT !.pc = "failed", !.err = r]]
    /\ UNCHANGED syncRest

\* sync.go 162-165
Y_ReadMessage(t) ==
    /\ sth[t].pc = "idle"
    /\ sy.ops < MaxSyncOps
    /\ sy' = [sy EXCEPT !.ops = @ + 1]
    /\ sth' = [sth EXCEPT ![t] = IF sy.closed
                                 THEN [SyncRet(t, ConnectionClosed) EXCEPT !.op = "ReadMessage"]
                                 ELSE SyncCall(t, "ReadMessage", "r_io")]
    /\ UNCHANGED syncRest

\* sync.go 168-169, 188-189, 199: the header and the content are read from the
\* stream
Y_ReadIO(t) ==
    /\ sth[t].pc = "r_io"
    /\ \E r \in SyncIOResults :
          /\ sy' = [sy EXCEPT !.faults = @ + (IF r # NoError /\ sy.connClosed = 0 THEN 1 ELSE 0)]
          /\ sth' = [sth EXCEPT ![t] = IF r = NoError THEN SyncRet(t, NoError)
                                       ELSE [sth[t] EXCEPT !.pc = "failed", !.err = r]]
    /\ UNCHANGED syncRest

\* sync.go 136-141, 147-152, 170-175, 190-195: after a failed read or write
Y_Failed(t) ==
    /\ sth[t].pc = "failed"
    /\ sth' = [sth EXCEPT ![t] = IF sy.closed THEN SyncRet(t, ConnectionClosed)
                                 ELSE [sth[t] EXCEPT !.pc = "cwe"]]
    /\ UNCHANGED <<sy, syncRest>>

\* sync.go 235-240: closeWithError calls close()
Y_CweClose(t) ==
    /\ sth[t].pc = "cwe"
    /\ IF SyncCloseWins(sy.closed)
       THEN /\ sy' = [sy EXCEPT !.closed = TRUE, !.winner = sth[t].op]
            /\ sth' = [sth EXCEPT ![t].pc = "cwe_store"]
       ELSE /\ sth' = [sth EXCEPT ![t] = SyncRet(t, ConnectionClosed)]
            /\ UNCHANGED sy
    /\ UNCHANGED syncRest

\* sync.go 243
Y_CweStore(t) ==
    /\ sth[t].pc = "cwe_store"
    /\ sy' = [sy EXCEPT !.error = sth[t].err]
    /\ sth' = [sth EXCEPT ![t].pc = "cwe_conn"]
    /\ UNCHANGED syncRest

\* sync.go 244-245
Y_CweConn(t) ==
    /\ sth[t].pc = "cwe_conn"
    /\ sy' = [sy EXCEPT !.connClosed = @ + 1]
    /\ sth' = [sth EXCEPT ![t] = SyncRet(t, sth[t].err)]
    /\ UNCHANGED syncRest

\* Sync.Raw, sync.go 213-216: close(), whatever it returns, and the stream
Y_Raw(t) ==
    /\ sth[t].pc = "idle"
    /\ sy.ops < MaxSyncOps
    /\ sy' = [sy EXCEPT !.ops = @ + 1, !.closed = TRUE,
                        !.winner = IF SyncCloseWins(sy.closed) THEN "Raw" ELSE @]
    /\ sth' = [sth EXCEPT ![t] = [SyncRet(t, "conn") EXCEPT !.op = "Raw"]]
    /\ UNCHANGED syncRest

\* Sync.Close, sync.go 219-223
Y_Close(t) ==
    /\ sth[t].pc = "idle"
    /\ sy.ops < MaxSyncOps
    /\ IF SyncCloseWins(sy.closed)
       THEN /\ sy' = [sy EXCEPT !.ops = @ + 1, !.closed = TRUE, !.winner = "Close"]
            /\ sth' = [sth EXCEPT ![t] = SyncCall(t, "Close", "close_conn")]
       ELSE /\ sy' = [sy EXCEPT !.ops = @ + 1]
            /\ sth' = [sth EXCEPT ![t] = [SyncRet(t, NoError) EXCEPT !.op = "Close"]]
    /\ UNCHANGED syncRest

\* sync.go 224-225
Y_CloseConn(t) ==
    /\ sth[t].pc = "close_conn"
    /\ sy' = [sy EXCEPT !.connClosed = @ + 1]
    /\ sth' = [sth EXCEPT ![t] = SyncRet(t, NoError)]
    /\ UNCHANGED syncRest

SyncStep(t) ==
    \/ Y_WriteMessage(t)
    \/ Y_Lock(t)
    \/ Y_WriteIO(t)
    \/ Y_ReadMessage(t)
    \/ Y_ReadIO(t)
    \/ Y_Failed(t)
    \/ Y_CweClose(t)
    \/ Y_CweStore(t)
    \/ Y_CweConn(t)
    \/ Y_Raw(t)
    \/ Y_Close(t)
    \/ Y_CloseConn(t)

(***************************************************************************)
(* The connection whose flush loop waits on a condition variable, conn.go  *)
(* 451-619.  Two users call Write, Close and Raw, MaxCondOps calls in all, *)
(* and the read loop calls Close when its read fails.  The stream accepts  *)
(* the writes and the writer's buffer (1 << 18 bytes) never fills.         *)
(***************************************************************************)
MaxCondOps == 3

CondThreads == Users \cup {ReadLoop}

\* New, conn.go 474-490
CondInit ==
    /\ cv = [closed |-> FALSE, mutex |-> Free, buffered |-> <<>>, wire |-> <<>>,
             fl |-> "lock", ringClosed |-> FALSE, connClosed |-> 0, accepted |-> {},
             nextId |-> 0, ops |-> 0]
    /\ cth = [t \in CondThreads |->
                 [pc |-> IF t = ReadLoop THEN "reading" ELSE "idle", op |-> "none", id |-> 0,
                  ret |-> NoError, seen |-> FALSE]]

condRest == <<sy, sth, connVars, peerVars, dl, served, puts, reused, shutVars, fw, fmutex,
              fbuf, fwire, direct>>

\* c.flush.Signal() and c.flush.Broadcast() with one waiter: the flush loop, if
\* it waits, is woken; otherwise the signal is lost
Wake(fl) == IF fl = "waiting" THEN "woken" ELSE fl

\* the values an unsynchronised read of c.closed by thread t may yield (conn.go
\* 542): the field is written under the mutex and read without it, so until t
\* has synchronised with the writer it may still read false
ClosedRead(t) == IF cv.closed /\ ~cth[t].seen THEN {TRUE, FALSE} ELSE {cv.closed}

\* thread t has acquired the mutex: it has synchronised with every earlier holder
Acquired(t) == [cth[t] EXCEPT !.seen = cv.closed]

\* the operation of thread t, whose record is s, returns v
CondRet(s, t, v) == [s EXCEPT !.pc = IF t = ReadLoop THEN "done" ELSE "idle", !.ret = v]

\* conn.go 522-524, 533: the flush loop takes the mutex
CF_Lock ==
    /\ cv.fl \in {"lock", "woken"}
    /\ Lock(cv.mutex)
    /\ cv' = [cv EXCEPT !.mutex = FlushLoop, !.fl = "check"]
    /\ UNCHANGED <<cth, condRest>>

\* conn.go 525-533: with the mutex, wait while nothing is buffered (Wait releases
\* the mutex); then return if the connection is closed, or flush and unlock
CF_Check ==
    /\ cv.fl = "check"
    /\ cv' = IF cv.buffered = <<>> THEN [cv EXCEPT !.mutex = Free, !.fl = "waiting"]
             ELSE IF cv.closed THEN [cv EXCEPT !.mutex = Free, !.fl = "done"]
             ELSE [cv EXCEPT !.mutex = Free, !.fl = "lock", !.wire = @ \o cv.buffered,
                             !.buffered = <<>>]
    /\ UNCHANGED <<cth, condRest>>

\* conn.go 537-545: the guards of Write
C_Write(t) ==
    /\ t \in Users
    /\ cth[t].pc = "idle"
    /\ cv.ops < MaxCondOps
    /\ cv' = [cv EXCEPT !.ops = @ + 1, !.nextId = @ + 1]
    /\ \E closed \in ClosedRead(t) :
          cth' = [cth EXCEPT ![t] = IF closed
                                    THEN [cth[t] EXCEPT !.op = "Write", !.id = cv.nextId + 1,
                                                        !.ret = ConnectionClosed]
                                    ELSE [cth[t] EXCEPT !.op = "Write", !.id = cv.nextId + 1,
                                                        !.ret = "pending", !.pc = "w_lock"]]
    /\ UNCHANGED condRest

\* conn.go 546-551: the frame is appended to the writer under the mutex
C_WriteAppend(t) ==
    /\ cth[t].pc = "w_lock"
    /\ Lock(cv.mutex)
    /\ cv' = [cv EXCEPT !.buffered = Append(@, cth[t].id)]
    /\ cth' = [cth EXCEPT ![t] = [Acquired(t) EXCEPT !.pc = "w_signal"]]
    /\ UNCHANGED condRest

\* conn.go 553-555
C_WriteSignal(t) ==
    /\ cth[t].pc = "w_signal"
    /\ cv' = [cv EXCEPT !.fl = Wake(@), !.accepted = @ \cup {cth[t].id}]
    /\ cth' = [cth EXCEPT ![t] = CondRet(cth[t], t, NoError)]
    /\ UNCHANGED condRest

\* conn.go 607-612, 492-497: Close or Raw is called
C_Call(t, o) ==
    /\ t \in Users
    /\ cth[t].pc = "idle"
    /\ cv.ops < MaxCondOps
    /\ cv' = [cv EXCEPT !.ops = @ + 1]
    /\ cth' = [cth EXCEPT ![t] = [cth[t] EXCEPT !.op = o, !.ret = "pending", !.pc = "c_lock"]]
    /\ UNCHANGED condRest

\* conn.go 587-589: a failed read of the read loop calls Close
C_ReadError ==
    /\ cth[ReadLoop].pc = "reading"
    /\ cth' = [cth EXCEPT ![ReadLoop] = [cth[ReadLoop] EXCEPT !.op = "Close", !.ret = "pending",
                                                              !.pc = "c_lock"]]
    /\ UNCHANGED <<cv, condRest>>

\* conn.go 613-618, 498-503: under the mutex, close the ring buffer, set closed,
\* wake the flush loop and (Close only) close the stream.  Closing a ring buffer
\* that is closed already may panic: the deferred recover returns the panic as
\* the error and the rest of the body does not run.
C_Body(t) ==
    /\ cth[t].pc = "c_lock"
    /\ Lock(cv.mutex)
    /\ \E panics \in (IF cv.ringClosed THEN BOOLEAN ELSE {FALSE}) :
          IF panics
          THEN /\ cth' = [cth EXCEPT ![t] = CondRet(Acquired(t), t, "panic")]
               /\ UNCHANGED cv
          ELSE /\ cv' = [cv EXCEPT !.ringClosed = TRUE, !.closed = TRUE, !.fl = Wake(@),
                                   !.connClosed = @ + (IF cth[t].op = "Close" THEN 1 ELSE 0)]
               /\ cth' = [cth EXCEPT ![t] = CondRet([cth[t] EXCEPT !.seen = TRUE], t, NoError)]
    /\ UNCHANGED condRest

CondNext ==
    \/ CF_Lock
    \/ CF_Check
    \/ \E t \in Users : C_Write(t)
    \/ \E t \in Users : C_WriteAppend(t)
    \/ \E t \in Users : C_WriteSignal(t)
    \/ \E t \in Users : C_Call(t, "Close")
    \/ \E t \in Users : C_Call(t, "Raw")
    \/ C_ReadError
    \/ \E t \in CondThreads : C_Body(t)

(***************************************************************************)
(* The connection's next-state relation: a panic ends the process.         *)
(***************************************************************************)
UserStep(t) ==
    \/ \E p \in UserPackets(nextId + 1) : Write(t, p)
    \/ Write_Error(t)
    \/ Write_Append(t)
    \/ Write_Fail(t)
    \/ Write_Signal(t)
    \/ Flush(t)
    \/ Read(t)
    \/ Read_Error(t)
    \/ Read_Pop(t)
    \/ Read_Fail(t)
    \/ Close(t)
    \/ Raw(t)
    \/ Close_Conn(t)

SharedStep(t) ==
    \/ Cwe_CloseCAS(t)
    \/ Close_Store(t)
    \/ Close2_Store(t)
    \/ Close2_Put(t)
    \/ Close_Flush(t)
    \/ Pause_CAS(t)
    \/ Pause_Store(t)
    \/ Pause_Load(t)
    \/ Kill_Ring(t)
    \/ Kill_Chan(t)
    \/ Kill_Deadline(t)
    \/ Kill_Wait(t)
    \/ Cwe_Store(t)
    \/ Cwe_Conn(t)

ConnNext ==
    \/ \E t \in Users : UserStep(t)
    \/ \E t \in Threads : SharedStep(t)
    \/ FlushLoop_Recv
    \/ FlushLoop_Flush
    \/ ReadLoop_Read
    \/ ReadLoop_ReadError
    \/ ReadLoop_BadVersion
    \/ ReadLoop_Push

Init ==
    /\ ConnInit(0) /\ opsLimit = MaxOps
    /\ PeerInit /\ ServeInit /\ ServerInit
    /\ FramesInit /\ SyncInit /\ CondInit /\ ~direct

Next == ConnNext

vars == <<connVars, peerVars, serveVars>>

Spec == Init /\ [][Next]_vars

(***************************************************************************)
(* SpecWire: one user of the connection writes and flushes packets of      *)
(* every kind, the stream does not fail, and the peer reads.               *)
(***************************************************************************)
\* the content of the large packet: longer than the peer's buffer
LongContent == [i \in 1..(BufCap + 1) |-> 20 + i]

\* the packets handed to Write: without content, with content, with content
\* longer than the peer's buffer, and with a ContentLength that is not the
\* length of the content (nil content, and content of another length)
WirePackets(id) ==
    { Packet(Message(id, 7, 0), NilContent),
      Packet(Message(id, 7, 1), Content(<<10 + id>>)),
      Packet(Message(id, 7, BufCap + 1), Content(LongContent)),
      Packet(Message(id, 7, 1), NilContent),
      Packet(Message(id, 7, 1), Content(<<10 + id, 10 + id>>)) }

WireInit ==
    /\ ConnInit(MaxFaults) /\ opsLimit = MaxOps
    /\ PeerInit /\ ServeInit /\ ServerInit
    /\ FramesInit /\ SyncInit /\ CondInit /\ ~direct

WireNext ==
    \/ \E p \in WirePackets(nextId + 1) : Write("user1", p)
    \/ Write_Append("user1")
    \/ Write_Signal("user1")
    \/ Flush("user1")
    \/ FlushLoop_Recv
    \/ FlushLoop_Flush
    \/ RL_Header
    \/ RL_Decode
    \/ RL_Content
    \/ RL_Push
    \/ RL_Next
    \/ RL_Partial
    \/ PeerRead

SpecWire == WireInit /\ [][WireNext]_vars

(***************************************************************************)
(* SpecServe: the dispatch loop alone.                                     *)
(***************************************************************************)
ServeNext ==
    \/ D_Read
    \/ D_Lookup
    \/ D_Handler
    \/ D_Return
    \/ D_Write
    \/ D_Action

SpecServe == Init /\ [][ServeNext]_vars

(***************************************************************************)
(* SpecFrames: the tasks writing packets at once, on a Conn or on a Sync.  *)
(***************************************************************************)
FramesInitAll ==
    /\ ConnInit(0) /\ opsLimit = MaxOps
    /\ PeerInit /\ ServeInit /\ ServerInit
    /\ FramesInit /\ SyncInit /\ CondInit

FramesNext ==
    \/ \E t \in Users : F_Write(t)
    \/ \E t \in Users : F_Lock(t)
    \/ \E t \in Users : F_Header(t)
    \/ \E t \in Users : F_Content(t)
    \/ \E t \in Users : F_Unlock(t)
    \/ F_Flush

SpecFrames == FramesInitAll /\ [][FramesNext]_vars

(***************************************************************************)
(* SpecLive: the connection under fair scheduling, with LiveOps public     *)
(* operations.  Every thread that can take a step inside an operation or a *)
(* task eventually takes it; a stream read returns once its deadline has   *)
(* expired or the stream is closed.  Nothing forces a user to begin an     *)
(* operation, a frame to arrive, the peer to close or the network to fail. *)
(***************************************************************************)
LiveInit ==
    /\ ConnInit(0) /\ opsLimit = LiveOps
    /\ PeerInit /\ ServeInit /\ ServerInit
    /\ FramesInit /\ SyncInit /\ CondInit /\ ~direct

LiveFairness ==
    /\ \A t \in Threads : WF_vars(SharedStep(t))
    /\ \A t \in Users :
          /\ WF_vars(Write_Error(t)) /\ WF_vars(Write_Append(t)) /\ WF_vars(Write_Fail(t))
          /\ WF_vars(Write_Signal(t))
          /\ WF_vars(Read_Error(t)) /\ WF_vars(Read_Pop(t)) /\ WF_vars(Read_Fail(t))
          /\ WF_vars(Close_Conn(t))
    /\ WF_vars(FlushLoop_Recv)
    /\ WF_vars(FlushLoop_Flush)
    /\ WF_vars(ReadLoop_Push)
    /\ WF_vars((deadline \/ connClosed > 0) /\ ReadLoop_ReadError)

SpecLive == LiveInit /\ [][Next]_vars /\ LiveFairness

(***************************************************************************)
(* SpecStream: one connection, a Conn with its two tasks or a Sync, with   *)
(* LiveOps (Conn) or MaxSyncOps (Sync) public operations.                  *)
(***************************************************************************)
StreamInit ==
    /\ ConnInit(0) /\ opsLimit = LiveOps
    /\ PeerInit /\ ServeInit /\ ServerInit
    /\ FramesInit /\ SyncInit /\ CondInit

StreamNext ==
    \/ ~direct /\ ConnNext
    \/ direct /\ \E t \in Users : SyncStep(t)

SpecStream == StreamInit /\ [][StreamNext]_vars

(***************************************************************************)
(* SpecCond: the connection of conn.go 451-619 under fair scheduling.      *)
(* Every thread that can take a step inside an operation eventually takes  *)
(* it, and so does the flush loop; nothing forces a user to call or the    *)
(* read loop's read to fail.                                               *)
(***************************************************************************)
CondInitAll ==
    /\ ConnInit(0) /\ opsLimit = MaxOps
    /\ PeerInit /\ ServeInit /\ ServerInit
    /\ FramesInit /\ SyncInit /\ CondInit /\ ~direct

CondFairness ==
    /\ WF_vars(CF_Lock)
    /\ WF_vars(CF_Check)
    /\ \A t \in CondThreads :
          /\ WF_vars(C_WriteAppend(t))
          /\ WF_vars(C_WriteSignal(t))
          /\ WF_vars(C_Body(t))

SpecCond == CondInitAll /\ [][CondNext]_vars /\ CondFairness

(***************************************************************************)
(* SpecShutdown: the server with its connections.  Every task that can     *)
(* take a step eventually takes it: the dispatch tasks, Shutdown and the   *)
(* acceptor run as threads of their own, and a handler returns.  Nothing   *)
(* forces a stream to arrive, a peer to close or a user to call Shutdown.  *)
(***************************************************************************)
ShutdownNext ==
    \/ \E k \in Conns : S_ServeConn(k)
    \/ S_AcceptFails
    \/ \E k \in Conns : S_PeerCloses(k)
    \/ \E k \in Conns : S_Read(k)
    \/ \E k \in Conns : S_Handler(k)
    \/ \E k \in Conns : S_Action(k)
    \/ S_Shutdown
    \/ Sd_Mark
    \/ Sd_CloseAll
    \/ Sd_Wait

ShutdownFairness ==
    /\ \A k \in Conns : WF_vars(S_Read(k)) /\ WF_vars(S_Handler(k)) /\ WF_vars(S_Action(k))
    /\ WF_vars(S_AcceptFails)
    /\ WF_vars(Sd_Mark)
    /\ WF_vars(Sd_CloseAll)
    /\ WF_vars(Sd_Wait)

SpecShutdown == Init /\ [][ShutdownNext]_vars /\ ShutdownFairness

(***************************************************************************)
(* Properties of the connection, checked under Spec.                       *)
(***************************************************************************)
\* the last operation of user t was a Write or a Read that began after a Close()
\* had returned, and it has returned
AfterClose(t) == th[t].pc = "idle" /\ th[t].after /\ th[t].op \in {"Write", "Read"}

Rejected(t) ==
    /\ th[t].op = "Write"
    /\ InvalidContentLengthCheck(th[t].pkt.Message, th[t].pkt.Content)

C5_PausedStreamStaysOpen ==
    (pauser = ReadLoop /\ "Close" \notin called) => connClosed = 0

C9_CloseIdempotent ==
    /\ \A t \in Users :
          (th[t].pc = "idle" /\ th[t].op = "Close") => (th[t].ret = NoError /\ state = CLOSED)
    /\ kills <= 1
    /\ Len(finalFlush) <= 1
    /\ connClosed <= 1

C9_Witness ==
    /\ \A t \in Users : th[t].pc = "idle" /\ th[t].op = "Close" /\ th[t].ret = NoError
    /\ ~th["user2"].after
    /\ closer.from = CONNECTED
    /\ connClosed = 1

\* Ids of the frames written to the stream
WireIds == { wire[i].Message.Id : i \in 1..Len(wire) }

\* C10: when a Close() has closed a CONNECTED connection and closed the stream,
\* every packet whose Write had returned nil before that Close() is on the
\* stream, unless the network has failed a write.
C10_GracefulCloseLosesNothing ==
    (/\ closer.op = "Close"
     /\ closer.from = CONNECTED
     /\ connClosed > 0
     /\ writerErr \notin NetworkFaults) => atClose.accepted \subseteq WireIds

C10_Witness ==
    /\ closer.op = "Close"
    /\ closer.from = CONNECTED
    /\ connClosed > 0
    /\ writerErr = NoError
    /\ atClose.buffered > 0
    /\ atClose.accepted # {}

\* the last operation of user t was a Write, a Read or a Flush that began after
\* a Raw() had returned, and it has returned
AfterRaw(t) ==
    th[t].pc = "idle" /\ th[t].afterRaw /\ th[t].op \in {"Write", "Read", "Flush"}

\* C11: once Raw() has returned, every later Write, Read and Flush returns an
\* error; none returns nil.
C11_FailsAfterRaw ==
    \A t \in Users : AfterRaw(t) => th[t].ret # NoError

\* C12: once Raw() has returned, the transport begins no read, write or close on
\* the stream.
C12_RawLeavesStream ==
    rawOps \cap {"read", "write", "close"} = {}

\* C16: the state moves only CONNECTED -> PAUSED, CONNECTED -> CLOSED and
\* PAUSED -> CLOSED; nothing leaves CLOSED and nothing returns to CONNECTED.
C16_StateMoves ==
    [][state' # state =>
          <<state, state'>> \in {<<CONNECTED, PAUSED>>, <<CONNECTED, CLOSED>>, <<PAUSED, CLOSED>>}]_vars

C16_Witness ==
    /\ state = CLOSED
    /\ closer.from = PAUSED
    /\ \E t \in Threads : th[t].pc = "pause_load"

\* C17: a PAUSED connection is moved to CLOSED only by the close() of an explicit
\* Close() (or Raw()), never by the closeWithError of a failing operation or
\* background task, and the last-error slot never holds that error.
C17_PausedLeavesOnlyByClose ==
    closer.from = PAUSED =>
        /\ closer.err = NoError
        /\ stored \subseteq {ConnectionClosed, ConnectionPaused}

\* C18: a Read or a Write that has found the state PAUSED and is about to return
\* the last-error slot (conn.go 98, 106, 155, 161) returns ConnectionPaused: the
\* slot holds ConnectionPaused whenever the state is PAUSED.
C18_PausedReturnsPaused ==
    \A t \in Users :
        (state = PAUSED /\ th[t].pc \in {"r_error", "w_error"}) => error = ConnectionPaused

\* C19: a stream error never leaves the connection CONNECTED with a background
\* task gone: once the read loop or the flush loop has ended, the state is not
\* CONNECTED.
C19_ErrorLeavesConnected ==
    (th[ReadLoop].pc = "done" \/ th[FlushLoop].pc = "done") => state # CONNECTED

\* C20: a header the read loop has found invalid ends the read loop: it does not
\* read or push again, and once its closeWithError has returned the state is not
\* CONNECTED.
C20_FramingErrorIsFatal ==
    framing > 0 =>
        /\ th[ReadLoop].pc \notin {"rl_read", "rl_push"}
        /\ th[ReadLoop].pc = "done" => state # CONNECTED

\* the peer has closed its end of the stream (the read loop has read io.EOF and
\* paused the connection), nothing on this side has closed the connection, and
\* the Read of user t has returned an error
ReadAfterPeerClosed(t) ==
    /\ pauser = ReadLoop
    /\ closer = NoCloser
    /\ th[t].pc = "idle"
    /\ th[t].op = "Read"
    /\ th[t].ret # NoError

\* C13: a Read on the connection whose peer has closed returns ConnectionClosed.
C13_StaleCloseReturnsClosed ==
    \A t \in Users : ReadAfterPeerClosed(t) => th[t].ret = ConnectionClosed

\* C14: the last packet the peer wrote before it closed is handed to the reader:
\* when a Read reports the end of the stream, no packet is left in the ring
\* buffer.
C14_LastPacketReachesReader ==
    \A t \in Users : ReadAfterPeerClosed(t) => ring = <<>>

\* C21: every packet the read loop has pushed is returned by Read exactly once:
\* no packet is returned twice, and a Read returns an error only when no packet
\* is left in the ring buffer.
C21_HandedOutExactlyOnce ==
    /\ \A i, j \in 1..Len(popped) : i # j => popped[i] # popped[j]
    /\ \A t \in Users :
          (th[t].pc = "idle" /\ th[t].op = "Read" /\ th[t].ret # NoError) => ring = <<>>

\* C24: as long as nothing has moved the state and no thread is closing the
\* connection with an error, the last-error slot, which Error() returns
\* (conn.go 176-178), is nil.
C24_FreshErrorIsNil ==
    (/\ state = CONNECTED
     /\ closer = NoCloser
     /\ pauser = "none"
     /\ \A t \in Threads : th[t].err = NoError) => error = NoError

\* thread t is inside killGoroutines, conn.go 194-200
InTeardown(t) == th[t].pc \in {"kill_ring", "kill_chan", "kill_deadline", "kill_wait"}

\* the compare-and-set of thread t moved the state out of CONNECTED
WonTransition(t) ==
    \/ pauser = t /\ IsEOF(th[t].err)
    \/ closer.thread = t /\ closer.from = CONNECTED /\ ~IsEOF(th[t].err)

\* C26: killGoroutines runs at most once, only in the thread whose compare-and-set
\* moved the state out of CONNECTED, and it never closes a ring buffer or a
\* flush-signal channel that is already closed.
C26_TeardownOnce ==
    /\ kills <= 1
    /\ \A t \in Threads :
          /\ InTeardown(t) => WonTransition(t)
          /\ th[t].pc = "kill_ring" => ~ringClosed
          /\ th[t].pc = "kill_chan" => ~flusherClosed
    /\ (ringClosed \/ flusherClosed) => kills = 1

C26_Witness ==
    /\ kills = 1
    /\ flusherClosed
    /\ \A t \in Users : th[t].pc = "idle" /\ th[t].op \in {"Close", "Raw"} /\ ~th[t].after
    /\ pauser = ReadLoop
    /\ th[FlushLoop].pc = "close_cas"

\* C29: a Write appends its frame to the writer (conn.go 101-125) only while the
\* state is CONNECTED: the state it has checked is still the state when it
\* appends.
C29_AppendsOnlyWhileConnected ==
    [][\A t \in Users :
          (th[t].pc = "w_lock" /\ th'[t].pc = "w_signal") => state = CONNECTED]_vars

\* C25: when a Raw() has moved the state to CLOSED and a Raw() has returned,
\* every packet whose Write had returned nil before that Raw() was called is on
\* the stream, unless the stream has failed a write.
C25_RawFlushesAccepted ==
    (closer.op = "Raw" /\ rawReturned /\ writerErr = NoError)
        => atClose.accepted \subseteq WireIds

\* the Read of user t has found the ring buffer closed and drained (conn.go
\* 158-161) and is about to return the last-error slot
Unblocked(t) == th[t].pc = "r_error" /\ th[t].err = RingBufferClosed

\* C30: a Read that was waiting on the empty ring buffer and is unblocked by the
\* teardown returns ConnectionClosed, ConnectionPaused or the error of the stream
\* that closed the connection, never nil and never RingBufferClosed itself.
C30_UnblockedReadReturnsStoredError ==
    \A t \in Users :
        Unblocked(t) => error \in ({ConnectionClosed, ConnectionPaused} \cup NetworkFaults)

\* C31: no Write sends on the flush-signal channel after killGoroutines has
\* closed it: the signal step of Write (conn.go 127-132) never panics.
C31_NoSendOnClosedChannel ==
    \A t \in Users : th[t].op = "Write" => th[t].pc # "panic"

(***************************************************************************)
(* Properties of the stream between the peers, checked under SpecWire.     *)
(***************************************************************************)
\* the content of a packet as cells (none for a nil pointer)
ContentBytes(p) == IF p.Content.nil THEN <<>> ELSE p.Content.bytes

\* two packets with the same From, To, Id, Operation, ContentLength and content
SamePacket(d, p) == d.Message = p.Message /\ ContentBytes(d) = ContentBytes(p)

\* sequence a is a prefix of sequence b, packet by packet
IsPrefix(a, b) == Len(a) <= Len(b) /\ \A i \in 1..Len(a) : SamePacket(a[i], b[i])

\* every frame on the stream carries as much content as its header declares
WireWellFormed == \A i \in 1..Len(wire) : WellFormed(wire[i])

\* the packets the peer's readLoop has pushed
Pushed == delivered \o peerRing

\* the peer has read every cell written, waits for more, and its ring is empty
PeerAtRest ==
    /\ rl.pc \in {"header", "content", "next", "partial"}
    /\ rpos = Len(WireBytes)
    /\ peerRing = <<>>

\* C1: when Write has returned nil for a packet and a following Flush has
\* returned nil, the peer's Read returns an equal packet; stated for the runs
\* that have come to rest (the peer has consumed all there is).
C1_RoundTrip ==
    (/\ th["user1"].pc = "idle"
     /\ th["user1"].op = "Flush"
     /\ th["user1"].ret = NoError
     /\ PeerAtRest)
        => \A i \in 1..Len(wire) :
              wire[i].Message.Id \in accepted
                  => \E j \in 1..Len(delivered) : SamePacket(delivered[j], wire[i])

C3_FramingAnyChunking ==
    WireWellFormed =>
        /\ IsPrefix(Pushed, wire)
        /\ (rpos = Len(WireBytes) /\ rl.pc \notin {"decode", "push"}) =>
              /\ Len(Pushed) = Len(wire)
              /\ rl.pc \in {"header", "next"}
              /\ rl.n = 0

C3_Witness ==
    /\ WireWellFormed
    /\ Len(Pushed) = 2
    /\ Len(wire) = 2
    /\ {"content split", "header split"} \subseteq paths

\* C6: a Write whose packet declares a ContentLength that is not the length of
\* its content (nil content included) returns InvalidContentLength at once, and
\* no such packet is ever in the writer or on the stream.
C6_RejectsWrongLength ==
    /\ \A t \in Users :
          (th[t].op = "Write" /\ ~WellFormed(th[t].pkt))
              => (th[t].pc = "idle" /\ th[t].ret = InvalidContentLength)
    /\ \A i \in 1..Len(writer) : WellFormed(writer[i])
    /\ WireWellFormed

(***************************************************************************)
(* Properties of the connection under fair scheduling, checked under       *)
(* SpecLive.                                                               *)
(***************************************************************************)
\* both background tasks have exited, the join of killGoroutines has returned
\* and every operation of the users has returned
TeardownDone ==
    /\ th[ReadLoop].pc = "done"
    /\ th[FlushLoop].pc = "done"
    /\ wg = 0
    /\ ~deadline
    /\ \A t \in Users : th[t].pc = "idle"

\* C27: once a thread has moved the state out of CONNECTED, both background tasks
\* exit, the join returns and every operation returns, unless the process has
\* panicked; the count of the join is never below zero.
C27_TeardownTerminates ==
    /\ (state # CONNECTED) ~> (TeardownDone \/ panicked)
    /\ [](wg \in 0..2)

C27_Witness ==
    /\ TeardownDone
    /\ pauser = ReadLoop
    /\ closer.thread = FlushLoop
    /\ closer.from = PAUSED

\* packet id has been written to the stream, or the connection has left
\* CONNECTED, the stream has failed a write or the process has panicked
FlushedOrDown(id) ==
    \/ id \in WireIds
    \/ state # CONNECTED
    \/ writerErr # NoError
    \/ panicked

\* C28: on a connection that stays CONNECTED and whose stream accepts the
\* writes, every packet whose Write has returned nil is eventually on the
\* stream, whether or not a user calls Flush and whether the Write sent its
\* flush signal or dropped it.
C28_CoalescedFlushLosesNothing ==
    \A id \in 1..MaxWrites : (id \in accepted) ~> FlushedOrDown(id)

C28_Witness ==
    /\ state = CONNECTED
    /\ writerErr = NoError
    /\ called = {"Write"}
    /\ dropped # {}
    /\ dropped \subseteq accepted
    /\ accepted \subseteq WireIds

(***************************************************************************)
(* Properties of the connection at rest, checked under Spec.               *)
(***************************************************************************)
\* C33: once every transition has completed (both tasks have exited, the join
\* has returned, every operation has returned), the last-error slot agrees with
\* the state: ConnectionPaused when PAUSED; when CLOSED, ConnectionClosed or the
\* error that induced the close, and never ConnectionPaused.
C33_SlotAgreesWithState ==
    (TeardownDone /\ ~panicked) =>
        /\ state = PAUSED => error = ConnectionPaused
        /\ state = CLOSED =>
              /\ error # ConnectionPaused
              /\ error \in {ConnectionClosed} \cup (IF closer.err = NoError THEN {} ELSE {closer.err})

(***************************************************************************)
(* Properties of the critical section of Write, checked under SpecFrames.  *)
(***************************************************************************)
\* the writes in the order in which they reach the stream
Outbound == fwire \o fbuf

\* every header is followed at once by its own content (or is the last write,
\* its task being about to write the content), and every content follows its
\* own header
Framed(s) ==
    \A i \in 1..Len(s) :
        /\ (s[i].part = "header" /\ s[i].content) =>
              IF i < Len(s)
              THEN s[i + 1] = [s[i] EXCEPT !.part = "content"]
              ELSE fw[s[i].task].pc = "content" /\ fw[s[i].task].seq = s[i].seq
        /\ s[i].part = "content" => (i > 1 /\ s[i - 1] = [s[i] EXCEPT !.part = "header"])

\* the frames of each task are in the order of its calls, none twice
Ordered(s) ==
    \A i, j \in 1..Len(s) :
        (i < j /\ s[i].task = s[j].task /\ s[i].part = "header" /\ s[j].part = "header")
            => s[i].seq < s[j].seq

\* C22: with several tasks in Write at once, on a Conn or on a Sync, the writes
\* go to the stream (through the writer, for a Conn) as whole frames, a header
\* followed at once by its own content, and the frames of each task in the
\* order of its calls; once every Write has returned, every packet of every
\* task is among them.
C22_FramesWholeAndOrdered ==
    /\ Framed(Outbound)
    /\ Ordered(Outbound)
    /\ (\A t \in Users : fw[t].pc = "idle") =>
          \A t \in Users : \A k \in 1..fw[t].seq :
              \E i \in 1..Len(Outbound) :
                  Outbound[i].task = t /\ Outbound[i].seq = k /\ Outbound[i].part = "header"

C22_Witness ==
    /\ \A t \in Users : fw[t].pc = "idle" /\ fw[t].seq = MaxFrames
    /\ fbuf = <<>>
    /\ ~direct
    /\ \A t \in Users : \E i \in 1..Len(fwire) : fwire[i].task = t /\ fwire[i].part = "content"
    /\ \E i, j, k \in 1..Len(fwire) :
          /\ i < j /\ j < k
          /\ fwire[i].task = fwire[k].task
          /\ fwire[j].task # fwire[i].task

(***************************************************************************)
(* Properties of the closing of the stream, checked under SpecStream.      *)
(***************************************************************************)
\* C32: the transport calls c.conn.Close() at most once per connection, on a
\* Conn and on a Sync, whatever Close(), Raw() and the failing operations and
\* tasks do; when the close() that moved the connection to closed was that of
\* Raw(), the transport never closes the stream.
C32_StreamClosedOnce ==
    /\ connClosed <= 1
    /\ closer.op = "Raw" => connClosed = 0
    /\ sy.connClosed <= 1
    /\ sy.winner = "Raw" => sy.connClosed = 0

\* a failed WriteMessage has closed the Sync and its stream while the other user
\* called Close() and Raw()
C32_Witness ==
    /\ direct
    /\ sy.winner = "WriteMessage"
    /\ sy.connClosed = 1
    /\ sy.ops = MaxSyncOps
    /\ \A t \in Users : sth[t].pc = "idle"
    /\ \E t \in Users : sth[t].op = "Close" /\ sth[t].ret = NoError

(***************************************************************************)
(* Properties of the connection of conn.go 451-619, checked under          *)
(* SpecCond.                                                               *)
(***************************************************************************)
\* the packets that have reached the stream
CondFlushed == { cv.wire[i] : i \in 1..Len(cv.wire) }

\* the connection is closed, every call has returned and the flush loop has
\* exited or waits
CondAtRest ==
    /\ cv.closed
    /\ cv.fl \in {"done", "waiting"}
    /\ \A t \in Users : cth[t].pc = "idle"

\* C34: after Close() or Raw() the flush loop terminates, whether or not the
\* writer holds bytes at that moment, and once the connection is at rest every
\* packet whose Write returned nil has reached the stream.
C34_FlushLoopTerminates ==
    /\ cv.closed ~> (cv.fl = "done")
    /\ [](CondAtRest => cv.accepted \subseteq CondFlushed)

(***************************************************************************)
(* Properties of the server, checked under SpecShutdown.                   *)
(***************************************************************************)
\* a handler has returned SHUTDOWN on one of at least two live connections
ShutdownReturned ==
    \E k \in Conns :
        /\ task[k].pc = "action"
        /\ task[k].action = SHUTDOWN
        /\ Cardinality(Live) >= 2

\* the server is down: no connection is live, every dispatch task has finished,
\* Shutdown has returned nil and Accept has failed
ServerDown ==
    /\ Live = {}
    /\ \A k \in Conns : task[k].pc \in {"none", "done"}
    /\ sd.pc = "returned"
    /\ sd.ret = NoError
    /\ acceptor = "stopped"

Dispatched == { k \in 1..served : k # dl.inbound }

\* C8: no packet is Put twice, and every inbound packet whose iteration has
\* ended has been Put exactly once, whichever path the iteration took.
C8_PoolAccounting ==
    /\ \A k \in Pooled : puts[k] <= 1
    /\ \A k \in Dispatched : puts[k] = 1

C8_Witness ==
    /\ dl.pc = "read"
    /\ served = MaxServed
    /\ reused # {}
    /\ \A k \in 1..served : puts[k] = 1
    /\ \E k \in Inbound : puts[Fresh(k)] = 1

=============================================================================
